---- MODULE Spec2Model ----
(***************************************************************************)
(* The per-tweet result caching and state-synchronisation protocol of the  *)
(* extension: the side panel (App: mount effect, TWEET_CLICKED listener,   *)
(* handleGenerateComment, handleExplanation, saveTweetResults,             *)
(* saveSidePanelState) over chrome.storage.session, and the background     *)
(* service worker (tweetCache, TWEET_CLICKED, GET_CURRENT_TWEET,           *)
(* tabs.onRemoved).                                                        *)
(*                                                                         *)
(* Conventions.  A nullable value is the empty sequence (Null) or a one    *)
(* element sequence (Some(x)).  A tweet text is a sequence of blocks of    *)
(* BlockChars characters.  A generated comment, a usage, a cost, a model   *)
(* name and an explanation are strings; "" is the empty comment and "null" *)
(* the null of the other fields.  Every await is a yield point: an action  *)
(* is one run of JavaScript between two awaits together with the effect of *)
(* the storage operation that run issues (the result is kept in a local of *)
(* the handler until its continuation runs).  A continuation that only     *)
(* ends its handler is run with the step before it.  React state that no   *)
(* handler reads and no claim is about (success, translation, the          *)
(* explanation's own usage and cost, isExplaining, the panels of the view) *)
(* is left out.                                                            *)
(***************************************************************************)
EXTENDS Integers, Sequences, FiniteSets, TLC

\* ------------------------------------------------------------------ bounds
MaxNow == 1          \* Date.now() takes the values 0..MaxNow
MaxFailures == 1     \* chrome.storage calls that reject in a run
MaxEvents == 4       \* user events in a run: the panel is opened, a tweet is
                     \* clicked, Generate is clicked, Retry is clicked
MaxInFlight == 2     \* handlers of the panel (calls of the background) in
                     \* flight at a time
MaxSaves == 2        \* saveTweetResults calls in a run of SpecSaves
MaxTabs == 2         \* browser tabs
MaxMessages == 4     \* messages and tab events the background receives
MaxClears == 2       \* removeCachedTweet calls in a row that are counted per tab
MaxUnsent == 1       \* TWEET_CLICKED messages on their way at a time
MaxCalls == 4        \* set, remove and clear calls of the storage wrappers
MaxClients == 6      \* getClient calls in a run

\* ------------------------------------------------------- program constants
KeyChars == 200      \* getTweetKey: tweet.text.slice(0, 200)
BlockChars == 100    \* unit of a text block (translation key: slice(0, 100))
MaxAttempts == 5     \* tryExtract: retries of the extraction on a detail page
MaxCacheEntries == 10 \* saveTweetResults: keys.length >= 10

\* ------------------------------------------------------------------ values
Null == <<>>
Some(x) == <<x>>
Get(o) == o[1]
Min(a, b) == IF a < b THEN a ELSE b

\* String.prototype.slice(0, n) on a text of blocks: n is a multiple of
\* BlockChars
Slice(text, n) == SubSeq(text, 1, Min(Len(text), n \div BlockChars))

\* The posts a user can click.  PostA and PostA2 differ only after their
\* first 200 characters.
PostA == [text |-> <<"a", "a", "x">>]
PostA2 == [text |-> <<"a", "a", "y">>]
PostB == [text |-> <<"b">>]
Posts == {PostA, PostA2, PostB}

\* getTweetKey
getTweetKey(tweet) == Slice(tweet.text, KeyChars)

\* The comments the generation service can return for a tweet (result.comment
\* of generateCommentStream), the text a streamed chunk shows, and the
\* usage, cost, model and explanation that go with a comment.
Tag(tweet) == tweet.text[1] \o tweet.text[Len(tweet.text)]
CommentsFor(tweet) == {Tag(tweet) \o "1", Tag(tweet) \o "2"}
\* the results drawn for a request issued while shown was on display: a
\* regeneration returns a text other than the one it replaces
ResultsFor(tweet, shown) ==
  IF shown = Tag(tweet) \o "1" THEN {Tag(tweet) \o "2"} ELSE {Tag(tweet) \o "1"}
ChunkFor(tweet) == Tag(tweet) \o "~"
UsageOf(comment) == "usage:" \o comment
CostOf(comment) == "cost:" \o comment
SelectedModel == "gemini"
ExplanationOf(comment) == "why:" \o comment
\* the posts a displayed text was generated (or is being streamed) for
SourcesOf(comment) == {p \in Posts : comment \in CommentsFor(p) \/ comment = ChunkFor(p)}

\* -------------------------------------------------- tweetResultsCache value
\* The stored object is a sequence of <<key, TweetResults>> pairs in
\* Object.keys order (insertion order); undefined is Null.
HasKey(cache, key) == \E i \in 1..Len(cache) : cache[i].key = key
IndexOf(cache, key) == CHOOSE i \in 1..Len(cache) : cache[i].key = key
\* cache[key], as a nullable
Lookup(cache, key) == IF HasKey(cache, key) THEN Some(cache[IndexOf(cache, key)].val) ELSE Null
RemoveAt(s, i) == [j \in 1..(Len(s) - 1) |-> IF j < i THEN s[j] ELSE s[j + 1]]

\* variant: the last of the entries with the least lastUpdated wins
RECURSIVE OldestFromLast(_, _, _)
OldestFromLast(cache, i, best) ==
  IF i > Len(cache) THEN best
  ELSE OldestFromLast(cache, i + 1,
         IF cache[i].val.lastUpdated <= cache[best].val.lastUpdated THEN i ELSE best)

\* saveTweetResults, lines 165-172: the scan for the oldest entry; the
\* first of the entries with the least lastUpdated wins (strict <).
RECURSIVE OldestFrom(_, _, _)
OldestFrom(cache, i, best) ==
  IF i > Len(cache) THEN best
  ELSE OldestFrom(cache, i + 1,
         IF cache[i].val.lastUpdated < cache[best].val.lastUpdated THEN i ELSE best)
OldestIndex(cache) == OldestFrom(cache, 1, 1)

\* variant: nothing is evicted
NeverEvicted(existing, key) == existing

\* variant: a full cache loses its oldest entry at every put
EvictedWhenFull(existing, key) ==
  IF Len(existing) >= MaxCacheEntries
  THEN RemoveAt(existing, OldestIndex(existing))
  ELSE existing

\* saveTweetResults, lines 161-175: what is written back from the object
\* that was read (existing), for a key and non-empty results.
Evicted(existing, key) ==
  IF Len(existing) >= MaxCacheEntries /\ ~HasKey(existing, key)
  THEN RemoveAt(existing, OldestIndex(existing))
  ELSE existing
PutEntry(existing, key, results) ==
  LET kept == Evicted(existing, key) IN
  IF HasKey(kept, key)
  THEN [kept EXCEPT ![IndexOf(kept, key)] = [key |-> key, val |-> results]]
  ELSE Append(kept, [key |-> key, val |-> results])

\* TweetResults and SidePanelState records
Results(comment, usage, cost, model, explanation, t) ==
  [generatedComment |-> comment, tokenUsage |-> usage, tokenCost |-> cost,
   currentModel |-> model, commentExplanation |-> explanation, lastUpdated |-> t]
State(tweet, comment, usage, cost, model, explanation, t) ==
  [tweetData |-> tweet, generatedComment |-> comment, tokenUsage |-> usage,
   tokenCost |-> cost, currentModel |-> model, commentExplanation |-> explanation,
   lastUpdated |-> t]

\* ------------------------------------------------------------------- state
VARIABLES
  panel,              \* "closed" or "open": whether the side panel is mounted
  ui,                 \* the React state of App (useState values)
  sidePanelState,     \* chrome.storage.session key sidePanelState (nullable)
  tweetResultsCache,  \* chrome.storage.session key tweetResultsCache (nullable)
  switches,           \* TWEET_CLICKED async blocks in flight, in arrival order
  gen,                \* the handleGenerateComment call in flight (nullable)
  expls,              \* the handleExplanation calls in flight
  loadSettings,       \* position of loadSettings() of the mount effect
  query,              \* position of the GET_CURRENT_TWEET promise chain
  now,                \* Date.now()
  posts,              \* the posts the user meets in this run
  faulty,            \* whether chrome.storage calls may reject in this run
  failures,           \* history: the number of storage calls that rejected
  budget,             \* history: the number of user events so far
  last,               \* history: the handler that finished in the last step
  touched,            \* history: the fingerprints whose cache entry the panel
                      \* has written or restored in this run
  saves,              \* saveTweetResults calls in flight, taken on their own
  lastSave,           \* history: the saveTweetResults call that wrote last
  lastSkip,           \* history: the last step was a saveTweetResults call that
                      \* returned at the empty check
  tweetCache,         \* chrome.storage.session key tweetCache (nullable)
  calls,              \* background: async calls in flight, in arrival order
  tabs,               \* background: the ids of the open tabs
  activeTab,          \* background: the tab chrome.tabs.query reports active
  reported,           \* history: per tab, the post of the completed report
  cleared,            \* history: per tab, the removeCachedTweet calls completed
                      \* since a report for the tab last began or was written
  lastBg,             \* history: what the background did in the last step
  session,            \* chrome.storage.session taken on its own: key -> value
  sessionSaved,       \* history: per key, the value of the last completed set
                      \* and whether it replaced a different saved value
  lastSession,        \* history: the sessionStorage call of the last step
  content,            \* per tab, the content script running in it (nullable)
  outbox,             \* TWEET_CLICKED messages sent and not yet received by
                      \* every listener
  lastContent,        \* history: what the content script did in the last step
  areas,              \* chrome.storage.local and chrome.storage.session behind
                      \* the wrappers storage and sessionStorage: key -> value
  opsLog,             \* history: the set, remove and clear calls made so far
  lastRead,           \* history: the get or getAll call of the last step
  clearing,           \* position of the clearPersona call in flight
  lastPersona,        \* history: the persona.ts call that returned last
  cachedClient,       \* gemini.ts: the module variable cachedClient (nullable)
  created,            \* gemini.ts: the GoogleGenerativeAI objects constructed
  lastClient          \* history: the getClient call of the last step

panelVars == <<panel, ui, sidePanelState, switches, gen, expls, loadSettings, query,
               posts, faulty, failures, budget, last, touched>>
saveVars == <<saves, lastSave, lastSkip>>
backgroundVars == <<tweetCache, calls, tabs, activeTab, reported, cleared, lastBg>>
sessionVars == <<session, sessionSaved, lastSession>>
contentVars == <<content, outbox, lastContent>>
storageVars == <<areas, opsLog, lastRead>>
personaVars == <<clearing, lastPersona>>
clientVars == <<cachedClient, created, lastClient>>
utilVars == <<storageVars, personaVars, clientVars>>
vars == <<panelVars, tweetResultsCache, now, saveVars, backgroundVars, sessionVars,
          contentVars, utilVars>>

\* useState initial values, lines 101-141
InitialUi ==
  [apiKey |-> FALSE, tweetData |-> Null, generatedComment |-> "",
   isLoading |-> FALSE, error |-> FALSE, tokenUsage |-> "null",
   tokenCost |-> "null", currentModel |-> "", commentExplanation |-> "null",
   explanationError |-> FALSE]

NoResults == Results("", "null", "null", "", "null", 0)
\* the history record of a finished handler: the post it was for, the post
\* and the text on display when it started, the cache entry of its post
\* when it started and when it looked the post up, whether it ran with no
\* other handler in flight, and whether no storage call has rejected so far
Event(kind, tweet, prevTweet, prevComment, entry, lookup, quiet) ==
  [kind |-> kind, tweet |-> tweet, prevTweet |-> prevTweet, prevComment |-> prevComment,
   entry |-> entry, lookup |-> lookup, quiet |-> quiet, clean |-> failures = 0,
   failed |-> FALSE, pair |-> Null]
NoEvent ==
  [kind |-> "none", tweet |-> Null, prevTweet |-> Null, prevComment |-> "",
   entry |-> Null, lookup |-> Null, quiet |-> FALSE, clean |-> FALSE, failed |-> FALSE,
   pair |-> Null]

\* the outcomes of a chrome.storage call: TRUE resolves, FALSE rejects
Outcomes == IF faulty /\ failures < MaxFailures THEN BOOLEAN ELSE {TRUE}
\* the values Date.now() can return at a call
Clock == now..Min(now + 1, MaxNow)

\* sessionStorage.get('tweetResultsCache') || {}
ReadCache == IF tweetResultsCache = Null THEN <<>> ELSE Get(tweetResultsCache)
\* cache?.[key], read from the stored value
CachedFor(tweet) == Lookup(ReadCache, getTweetKey(tweet))
\* no generation and no explanation is in flight
Quiet == gen = Null /\ expls = <<>>
\* no handler of the panel is in flight
Settled ==
  /\ Quiet /\ switches = <<>>
  /\ loadSettings.pc = "done" /\ query.pc = "done"
\* the number of handlers in flight
InFlight ==
  Len(switches) + Len(expls) + (IF gen = Null THEN 0 ELSE 1)
  + (IF loadSettings.pc = "done" THEN 0 ELSE 1) + (IF query.pc = "done" THEN 0 ELSE 1)

\* a click while TWEET_CLICKED blocks are in flight: they no longer run alone
Disturbed(sw) == [i \in 1..Len(sw) |-> [sw[i] EXCEPT !.quiet = FALSE, !.pair = Null]]
\* history: the two notifications of an overlap, when p arrives while the
\* block of one notification is in flight that has run alone so far
PairWith(sw, p) ==
  IF Len(sw) = 1 /\ sw[1].quiet THEN Some([first |-> sw[1].tweet, second |-> p]) ELSE Null
Followed(sw, p) ==
  [i \in 1..Len(sw) |-> [sw[i] EXCEPT !.quiet = FALSE, !.pair = PairWith(sw, p)]]

\* restoreTweetResults, lines 194-200
restoreTweetResults(u, results) ==
  [u EXCEPT !.generatedComment = results.generatedComment,
            !.tokenUsage = results.tokenUsage,
            !.tokenCost = results.tokenCost,
            !.currentModel = results.currentModel,
            !.commentExplanation = results.commentExplanation]

\* variant: only the explanation error is reset
keepGeneratedState(u) == [u EXCEPT !.explanationError = FALSE]

\* clearGeneratedState, lines 203-211
clearGeneratedState(u) ==
  [u EXCEPT !.generatedComment = "", !.tokenUsage = "null", !.tokenCost = "null",
            !.commentExplanation = "null", !.explanationError = FALSE]

\* ------------------------------------------- panel: TWEET_CLICKED listener
\* messageListener, lines 338-382: the synchronous part.  The async block
\* runs up to its first await (sessionStorage.get('sidePanelState')), then
\* setTweetData(newTweet) and the resets run.  What becomes of the message
\* (contentVars) is the sender's part of the step.
TweetClicked(p) ==
  /\ panel = "open"
  /\ budget < MaxEvents
  /\ InFlight < MaxInFlight
  /\ \E ok \in Outcomes :
       /\ switches' = Append(Followed(switches, p),
            [tweet |-> p, pc |-> "gotState", ok |-> ok, pair |-> PairWith(switches, p),
             saved |-> IF ok THEN sidePanelState ELSE Null,
             key |-> <<>>, results |-> NoResults, existing |-> <<>>,
             prevTweet |-> ui.tweetData, prevComment |-> ui.generatedComment,
             entry |-> CachedFor(p), lookup |-> Null, quiet |-> Settled])
       /\ failures' = failures + (IF ok THEN 0 ELSE 1)
  /\ ui' = [ui EXCEPT !.tweetData = Some(p), !.error = FALSE]
  /\ budget' = budget + 1
  /\ query' = [query EXCEPT !.alone = FALSE]
  /\ last' = NoEvent
  /\ UNCHANGED <<panel, sidePanelState, tweetResultsCache, gen, expls,
                 loadSettings, now, posts, faulty>>
  /\ UNCHANGED <<saveVars, backgroundVars, sessionVars, utilVars, touched>>

\* loadTweetResults, lines 183-191, up to its await: the cache is read
SwitchLoad(i, h) ==
  \E ok \in Outcomes :
    /\ switches' = [switches EXCEPT ![i] =
         [h EXCEPT !.pc = "loadGot", !.ok = ok,
                   !.existing = IF ok /\ tweetResultsCache # Null
                                THEN Get(tweetResultsCache) ELSE <<>>,
                   !.lookup = CachedFor(h.tweet)]]
    /\ failures' = failures + (IF ok THEN 0 ELSE 1)

\* lines 346-356: sidePanelState has been read; save it into the per-tweet
\* cache when it holds a tweet and a comment, else go on to the lookup
SwitchGotState(i) ==
  /\ i \in 1..Len(switches)
  /\ switches[i].pc = "gotState"
  /\ LET h == switches[i]
         s == h.saved
     IN IF h.ok /\ s # Null /\ Get(s).tweetData # Null /\ Get(s).generatedComment # ""
        THEN \E t \in Clock, ok \in Outcomes :
               /\ now' = t
               /\ switches' = [switches EXCEPT ![i] =
                    [h EXCEPT !.pc = "putGot", !.ok = ok,
                              !.key = getTweetKey(Get(Get(s).tweetData)),
                              !.results = Results(Get(s).generatedComment, Get(s).tokenUsage,
                                            Get(s).tokenCost, Get(s).currentModel,
                                            Get(s).commentExplanation, t),
                              !.existing = IF ok THEN ReadCache ELSE <<>>]]
               /\ failures' = failures + (IF ok THEN 0 ELSE 1)
        ELSE SwitchLoad(i, h) /\ now' = now
  /\ last' = NoEvent
  /\ UNCHANGED <<panel, ui, sidePanelState, tweetResultsCache, gen, expls,
                 loadSettings, query, posts, faulty, budget>>
  /\ UNCHANGED <<saveVars, backgroundVars, sessionVars, utilVars, contentVars, touched>>

\* saveTweetResults, lines 162-179: the cache has been read; evict, insert
\* and write it back (a rejected get is caught and nothing is written)
SwitchPutGot(i) ==
  /\ i \in 1..Len(switches)
  /\ switches[i].pc = "putGot"
  /\ LET h == switches[i] IN
       IF h.ok
       THEN \E ok \in Outcomes :
              /\ tweetResultsCache' = IF ok THEN Some(PutEntry(h.existing, h.key, h.results))
                                      ELSE tweetResultsCache
              /\ switches' = [switches EXCEPT ![i] =
                   [h EXCEPT !.pc = "putSet", !.ok = ok]]
              /\ failures' = failures + (IF ok THEN 0 ELSE 1)
              /\ touched' = IF ok THEN touched \cup {h.key} ELSE touched
       ELSE SwitchLoad(i, h) /\ UNCHANGED <<tweetResultsCache, touched>>
  /\ last' = NoEvent
  /\ UNCHANGED <<panel, ui, sidePanelState, gen, expls, loadSettings, query, now,
                 posts, faulty, budget>>
  /\ UNCHANGED <<saveVars, backgroundVars, sessionVars, utilVars, contentVars>>

\* line 362: the save has returned; look the new tweet up
SwitchPutSet(i) ==
  /\ i \in 1..Len(switches)
  /\ switches[i].pc = "putSet"
  /\ SwitchLoad(i, switches[i])
  /\ last' = NoEvent
  /\ UNCHANGED <<panel, ui, sidePanelState, tweetResultsCache, gen, expls,
                 loadSettings, query, now, posts, faulty, budget>>
  /\ UNCHANGED <<saveVars, backgroundVars, sessionVars, utilVars, contentVars, touched>>

\* a lookup whose rejected read escapes: neither restore nor clear runs
SwitchLoadGotThrows(i) ==
  /\ i \in 1..Len(switches)
  /\ switches[i].pc = "loadGot"
  /\ LET h == switches[i]
         cachedResults == IF h.ok THEN Lookup(h.existing, getTweetKey(h.tweet)) ELSE Null
     IN /\ ui' = IF ~h.ok THEN ui
                 ELSE IF cachedResults # Null
                 THEN restoreTweetResults(ui, Get(cachedResults))
                 ELSE clearGeneratedState(ui)
        /\ touched' = IF cachedResults # Null
                      THEN touched \cup {getTweetKey(h.tweet)} ELSE touched
        /\ last' = [Event("switch", Some(h.tweet), h.prevTweet, h.prevComment,
                           h.entry, h.lookup, h.quiet)
                     EXCEPT !.failed = ~h.ok,
                            !.pair = IF Len(switches) = 1 THEN h.pair ELSE Null]
  /\ switches' = RemoveAt(switches, i)
  /\ UNCHANGED <<panel, sidePanelState, tweetResultsCache, gen, expls, loadSettings,
                 query, now, posts, faulty, failures, budget>>
  /\ UNCHANGED <<saveVars, backgroundVars, sessionVars, utilVars, contentVars>>

\* lines 362-368: restore the cached results of the new tweet, or clear
SwitchLoadGot(i) ==
  /\ i \in 1..Len(switches)
  /\ switches[i].pc = "loadGot"
  /\ LET h == switches[i]
         cachedResults == IF h.ok THEN Lookup(h.existing, getTweetKey(h.tweet)) ELSE Null
     IN /\ ui' = IF cachedResults # Null
                 THEN restoreTweetResults(ui, Get(cachedResults))
                 ELSE clearGeneratedState(ui)
        /\ touched' = IF cachedResults # Null
                      THEN touched \cup {getTweetKey(h.tweet)} ELSE touched
        /\ last' = [Event("switch", Some(h.tweet), h.prevTweet, h.prevComment,
                           h.entry, h.lookup, h.quiet)
                     EXCEPT !.failed = ~h.ok,
                            !.pair = IF Len(switches) = 1 THEN h.pair ELSE Null]
  /\ switches' = RemoveAt(switches, i)
  /\ UNCHANGED <<panel, sidePanelState, tweetResultsCache, gen, expls, loadSettings,
                 query, now, posts, faulty, failures, budget>>
  /\ UNCHANGED <<saveVars, backgroundVars, sessionVars, utilVars, contentVars>>

\* -------------------------------------------- panel: handleGenerateComment
\* the values of the render a handler was created in that the handler reads
Closure(u) ==
  [apiKey |-> u.apiKey, tweetData |-> u.tweetData,
   generatedComment |-> u.generatedComment, tokenUsage |-> u.tokenUsage,
   tokenCost |-> u.tokenCost, currentModel |-> u.currentModel,
   commentExplanation |-> u.commentExplanation]

\* saveSidePanelState, lines 214-230: the state object built from the
\* closure's values (cap) and the overrides, stamped with Date.now()
SnapshotOf(tweet, comment, usage, cost, model, explanation, t) ==
  State(tweet, comment, usage, cost, model, explanation, t)

\* handleExplanation, lines 458-462, called at line 561 with the closure of
\* the render in which Generate was clicked: the request is issued unless
\* the key or the comment is empty
StartExplanation(g) ==
  IF g.cap.apiKey /\ g.comment # ""
  THEN /\ expls' = Append(expls,
            [tweet |-> g.tweet, comment |-> g.comment, cap |-> g.cap, pc |-> "waiting",
             ok |-> TRUE, key |-> <<>>, results |-> NoResults, existing |-> <<>>])
       /\ ui' = [ui EXCEPT !.explanationError = FALSE, !.isLoading = FALSE]
  ELSE /\ expls' = expls
       /\ ui' = [ui EXCEPT !.isLoading = FALSE]

GenEvent(g, kind) ==
  Event(kind, Some(g.tweet), g.cap.tweetData, g.comment, Null, Null, FALSE)
\* the history record of a result or a chunk that has just been displayed:
\* the post it was requested for, the post and the text on display when it
\* arrived, and whether the mount effect and every TWEET_CLICKED block had
\* finished by then
ArrivalEvent(g, kind) ==
  Event(kind, Some(g.tweet), ui.tweetData, ui.generatedComment, Null, Null,
        switches = <<>> /\ loadSettings.pc = "done" /\ query.pc = "done")

\* a Generate button that stays enabled while loading
GenerateClickAlways ==
  /\ panel = "open"
  /\ ui.apiKey
  /\ budget < MaxEvents
  /\ InFlight < MaxInFlight
  /\ IF ui.tweetData = Null
     THEN /\ ui' = [ui EXCEPT !.error = TRUE]
          /\ UNCHANGED <<gen, budget, switches>>
     ELSE /\ ui' = [ui EXCEPT !.isLoading = TRUE, !.error = FALSE,
                              !.generatedComment = "", !.tokenUsage = "null",
                              !.tokenCost = "null", !.commentExplanation = "null",
                              !.explanationError = FALSE]
          /\ gen' = Some([tweet |-> Get(ui.tweetData), cap |-> Closure(ui), pc |-> "streaming",
                          comment |-> "", ok |-> TRUE, key |-> <<>>,
                          results |-> NoResults, existing |-> <<>>])
          /\ budget' = budget + 1
          /\ switches' = Disturbed(switches)
  /\ query' = [query EXCEPT !.alone = FALSE]
  /\ last' = NoEvent
  /\ UNCHANGED <<panel, sidePanelState, tweetResultsCache, expls,
                 loadSettings, now, posts, faulty, failures>>
  /\ UNCHANGED <<saveVars, backgroundVars, sessionVars, utilVars, contentVars, touched>>

\* lines 499-518: the click on Generate (the button is disabled while
\* isLoading or without an API key)
GenerateClick ==
  /\ panel = "open"
  /\ ui.apiKey /\ ~ui.isLoading
  /\ budget < MaxEvents
  /\ InFlight < MaxInFlight
  /\ IF ui.tweetData = Null
     THEN /\ ui' = [ui EXCEPT !.error = TRUE]
          /\ UNCHANGED <<gen, budget, switches>>
     ELSE /\ ui' = [ui EXCEPT !.isLoading = TRUE, !.error = FALSE,
                              !.generatedComment = "", !.tokenUsage = "null",
                              !.tokenCost = "null", !.commentExplanation = "null",
                              !.explanationError = FALSE]
          /\ gen' = Some([tweet |-> Get(ui.tweetData), cap |-> Closure(ui), pc |-> "streaming",
                          comment |-> "", ok |-> TRUE, key |-> <<>>,
                          results |-> NoResults, existing |-> <<>>])
          /\ budget' = budget + 1
          /\ switches' = Disturbed(switches)
  /\ query' = [query EXCEPT !.alone = FALSE]
  /\ last' = NoEvent
  /\ UNCHANGED <<panel, sidePanelState, tweetResultsCache, expls,
                 loadSettings, now, posts, faulty, failures>>
  /\ UNCHANGED <<saveVars, backgroundVars, sessionVars, utilVars, contentVars, touched>>

\* line 524: onChunk(text) => setGeneratedComment(text)
GenChunk ==
  /\ gen # Null /\ Get(gen).pc = "streaming"
  /\ ui.generatedComment # ChunkFor(Get(gen).tweet)
  /\ ui' = [ui EXCEPT !.generatedComment = ChunkFor(Get(gen).tweet)]
  /\ last' = ArrivalEvent(Get(gen), "genChunk")
  /\ UNCHANGED <<panel, sidePanelState, tweetResultsCache, switches, gen, expls,
                 loadSettings, query, now, posts, faulty, failures, budget>>
  /\ UNCHANGED <<saveVars, backgroundVars, sessionVars, utilVars, contentVars, touched>>

\* lines 531-539: the result arrives; the four setters run and the
\* preferences are written to chrome.storage.local (three awaits, one yield)
GenComplete ==
  /\ gen # Null /\ Get(gen).pc = "streaming"
  /\ \E c \in ResultsFor(Get(gen).tweet, Get(gen).cap.generatedComment), ok \in Outcomes :
       /\ ui' = [ui EXCEPT !.generatedComment = c, !.tokenUsage = UsageOf(c),
                           !.tokenCost = CostOf(c), !.currentModel = SelectedModel]
       /\ gen' = Some([Get(gen) EXCEPT !.pc = "prefsSet", !.comment = c, !.ok = ok])
       /\ failures' = failures + (IF ok THEN 0 ELSE 1)
  /\ last' = ArrivalEvent(Get(gen), "genResult")
  /\ UNCHANGED <<panel, sidePanelState, tweetResultsCache, switches, expls,
                 loadSettings, query, now, posts, faulty, budget>>
  /\ UNCHANGED <<saveVars, backgroundVars, sessionVars, utilVars, contentVars, touched>>

\* lines 562-573: catch and finally
GenCatch(g) ==
  /\ ui' = [ui EXCEPT !.error = TRUE, !.generatedComment = "", !.tokenUsage = "null",
                      !.tokenCost = "null", !.isLoading = FALSE]
  /\ gen' = Null
  /\ last' = GenEvent(g, "genFailed")

\* the request fails (generateCommentStream throws)
GenFail ==
  /\ gen # Null /\ Get(gen).pc = "streaming"
  /\ GenCatch(Get(gen))
  /\ UNCHANGED <<panel, sidePanelState, tweetResultsCache, switches, expls,
                 loadSettings, query, now, posts, faulty, failures, budget>>
  /\ UNCHANGED <<saveVars, backgroundVars, sessionVars, utilVars, contentVars, touched>>

\* lines 541-548: saveSidePanelState with the result; commentExplanation
\* is the closure's value.  A rejected preference write lands in catch.
GenPrefsSet ==
  /\ gen # Null /\ Get(gen).pc = "prefsSet"
  /\ LET g == Get(gen) IN
       IF g.ok
       THEN \E t \in Clock, ok \in Outcomes :
              /\ now' = t
              /\ sidePanelState' =
                   IF ok THEN Some(SnapshotOf(Some(g.tweet), g.comment, UsageOf(g.comment),
                                     CostOf(g.comment), SelectedModel,
                                     g.cap.commentExplanation, t))
                   ELSE sidePanelState
              /\ gen' = Some([g EXCEPT !.pc = "stateSet", !.ok = ok])
              /\ failures' = failures + (IF ok THEN 0 ELSE 1)
              /\ last' = NoEvent
              /\ ui' = ui
       ELSE GenCatch(g) /\ UNCHANGED <<now, sidePanelState, failures>>
  /\ UNCHANGED <<panel, tweetResultsCache, switches, expls, loadSettings, query,
                 posts, faulty, budget>>
  /\ UNCHANGED <<saveVars, backgroundVars, sessionVars, utilVars, contentVars, touched>>

\* lines 551-561: saveTweetResults with the result (a no-op for an empty
\* comment), then handleExplanation and finally
GenStateSet ==
  /\ gen # Null /\ Get(gen).pc = "stateSet"
  /\ LET g == Get(gen) IN
       IF g.comment # ""
       THEN \E t \in Clock, ok \in Outcomes :
              /\ now' = t
              /\ gen' = Some([g EXCEPT !.pc = "putGot", !.ok = ok,
                                !.key = getTweetKey(g.tweet),
                                !.results = Results(g.comment, UsageOf(g.comment),
                                              CostOf(g.comment), SelectedModel, "null", t),
                                !.existing = IF ok THEN ReadCache ELSE <<>>])
              /\ failures' = failures + (IF ok THEN 0 ELSE 1)
              /\ last' = NoEvent
              /\ UNCHANGED <<ui, expls>>
       ELSE /\ StartExplanation(g)
            /\ gen' = Null
            /\ last' = GenEvent(g, "gen")
            /\ UNCHANGED <<now, failures>>
  /\ UNCHANGED <<panel, sidePanelState, tweetResultsCache, switches, loadSettings,
                 query, posts, faulty, budget>>
  /\ UNCHANGED <<saveVars, backgroundVars, sessionVars, utilVars, contentVars, touched>>

\* saveTweetResults, lines 162-179, then lines 560-573: the cache that was
\* read is written back with the entry (a rejected get is caught and
\* nothing is written); when the write has returned, handleExplanation is
\* called and finally resets isLoading
GenPutGot ==
  /\ gen # Null /\ Get(gen).pc = "putGot"
  /\ LET g == Get(gen) IN
       /\ IF g.ok
          THEN \E ok \in Outcomes :
                 /\ tweetResultsCache' =
                      IF ok THEN Some(PutEntry(g.existing, g.key, g.results))
                      ELSE tweetResultsCache
                 /\ failures' = failures + (IF ok THEN 0 ELSE 1)
                 /\ last' = [GenEvent(g, "gen") EXCEPT !.clean = @ /\ ok]
                 /\ touched' = IF ok THEN touched \cup {g.key} ELSE touched
          ELSE /\ UNCHANGED <<tweetResultsCache, failures, touched>>
               /\ last' = GenEvent(g, "gen")
       /\ StartExplanation(g)
       /\ gen' = Null
  /\ UNCHANGED <<panel, sidePanelState, switches, loadSettings, query, now, posts,
                 faulty, budget>>
  /\ UNCHANGED <<saveVars, backgroundVars, sessionVars, utilVars, contentVars>>

\* ------------------------------------------------ panel: handleExplanation
ExplEvent(e, kind) ==
  Event(kind, Some(e.tweet), e.cap.tweetData, e.comment, Null, Null, FALSE)

\* lines 494-496: finally
ExplFinish(i, kind) ==
  /\ ui' = ui
  /\ expls' = RemoveAt(expls, i)
  /\ last' = ExplEvent(expls[i], kind)

\* lines 967-975: Retry, shown while explanationError is set
ExplRetry ==
  /\ panel = "open"
  /\ ui.explanationError
  /\ ui.tweetData # Null /\ ui.generatedComment # "" /\ ui.apiKey
  /\ InFlight < MaxInFlight
  /\ budget < MaxEvents
  /\ budget' = budget + 1
  /\ expls' = Append(expls,
       [tweet |-> Get(ui.tweetData), comment |-> ui.generatedComment, cap |-> Closure(ui),
        pc |-> "waiting", ok |-> TRUE, key |-> <<>>, results |-> NoResults,
        existing |-> <<>>])
  /\ ui' = [ui EXCEPT !.explanationError = FALSE]
  /\ switches' = Disturbed(switches)
  /\ query' = [query EXCEPT !.alone = FALSE]
  /\ last' = NoEvent
  /\ UNCHANGED <<panel, sidePanelState, tweetResultsCache, gen,
                 loadSettings, now, posts, faulty, failures>>
  /\ UNCHANGED <<saveVars, backgroundVars, sessionVars, utilVars, contentVars, touched>>

\* lines 465-478: the explanation arrives; saveSidePanelState is called
\* with the closure's tweetData, generatedComment, usage, cost and model
ExplComplete(i) ==
  /\ i \in 1..Len(expls)
  /\ expls[i].pc = "waiting"
  /\ LET e == expls[i] IN
     \E t \in Clock, ok \in Outcomes :
       /\ now' = t
       /\ ui' = [ui EXCEPT !.commentExplanation = ExplanationOf(e.comment)]
       /\ sidePanelState' =
            IF ok THEN Some(SnapshotOf(e.cap.tweetData, e.cap.generatedComment,
                              e.cap.tokenUsage, e.cap.tokenCost, e.cap.currentModel,
                              ExplanationOf(e.comment), t))
            ELSE sidePanelState
       /\ expls' = [expls EXCEPT ![i] = [e EXCEPT !.pc = "stateSet", !.ok = ok]]
       /\ failures' = failures + (IF ok THEN 0 ELSE 1)
  /\ last' = NoEvent
  /\ UNCHANGED <<panel, tweetResultsCache, switches, gen, loadSettings, query,
                 posts, faulty, budget>>
  /\ UNCHANGED <<saveVars, backgroundVars, sessionVars, utilVars, contentVars, touched>>

\* lines 491-496: the request fails
ExplFail(i) ==
  /\ i \in 1..Len(expls)
  /\ expls[i].pc = "waiting"
  /\ ui' = [ui EXCEPT !.explanationError = TRUE]
  /\ expls' = RemoveAt(expls, i)
  /\ last' = ExplEvent(expls[i], "explFailed")
  /\ UNCHANGED <<panel, sidePanelState, tweetResultsCache, switches, gen,
                 loadSettings, query, now, posts, faulty, failures, budget>>
  /\ UNCHANGED <<saveVars, backgroundVars, sessionVars, utilVars, contentVars, touched>>

\* lines 481-490: saveTweetResults with the closure's generatedComment
\* (a no-op when that is empty)
ExplStateSet(i) ==
  /\ i \in 1..Len(expls)
  /\ expls[i].pc = "stateSet"
  /\ LET e == expls[i] IN
       IF e.cap.generatedComment # ""
       THEN \E t \in Clock, ok \in Outcomes :
              /\ now' = t
              /\ expls' = [expls EXCEPT ![i] =
                   [e EXCEPT !.pc = "putGot", !.ok = ok, !.key = getTweetKey(e.tweet),
                             !.results = Results(e.cap.generatedComment, e.cap.tokenUsage,
                                           e.cap.tokenCost, e.cap.currentModel,
                                           ExplanationOf(e.comment), t),
                             !.existing = IF ok THEN ReadCache ELSE <<>>]]
              /\ failures' = failures + (IF ok THEN 0 ELSE 1)
              /\ last' = NoEvent
              /\ ui' = ui
       ELSE ExplFinish(i, "expl") /\ UNCHANGED <<now, failures>>
  /\ UNCHANGED <<panel, sidePanelState, tweetResultsCache, switches, gen,
                 loadSettings, query, posts, faulty, budget>>
  /\ UNCHANGED <<saveVars, backgroundVars, sessionVars, utilVars, contentVars, touched>>

\* saveTweetResults, lines 162-179, then finally
ExplPutGot(i) ==
  /\ i \in 1..Len(expls)
  /\ expls[i].pc = "putGot"
  /\ LET e == expls[i] IN
       IF e.ok
       THEN \E ok \in Outcomes :
              /\ tweetResultsCache' = IF ok THEN Some(PutEntry(e.existing, e.key, e.results))
                                      ELSE tweetResultsCache
              /\ failures' = failures + (IF ok THEN 0 ELSE 1)
              /\ last' = [ExplEvent(e, "expl") EXCEPT !.clean = @ /\ ok]
              /\ touched' = IF ok THEN touched \cup {e.key} ELSE touched
       ELSE /\ UNCHANGED <<tweetResultsCache, failures, touched>>
            /\ last' = ExplEvent(e, "expl")
  /\ expls' = RemoveAt(expls, i)
  /\ UNCHANGED <<panel, ui, sidePanelState, switches, gen, loadSettings, query, now,
                 posts, faulty, budget>>
  /\ UNCHANGED <<saveVars, backgroundVars, sessionVars, utilVars, contentVars>>

\* ------------------------------------------------- panel: the mount effect
IdleLoad == [pc |-> "done", ok |-> TRUE, saved |-> Null]
\* closedWith is history: the post and the comment that were on display
\* when the panel was last closed, if a generation and its explanation had
\* completed for that post and nothing was in flight (else Null)
IdleQuery ==
  [pc |-> "done", tweet |-> Null, ok |-> TRUE, existing |-> <<>>, entry |-> Null,
   alone |-> FALSE, closedWith |-> Null]

\* the history record of a finished mount: the post the background
\* returned, the snapshot loadSettings read, and the cache entry the
\* returned post had when the response arrived
MountEvent(l, q) ==
  Event("mount", q.tweet,
        IF l.saved = Null THEN Null ELSE Get(l.saved).tweetData,
        IF l.saved = Null THEN "" ELSE Get(l.saved).generatedComment,
        q.entry, q.entry, q.alone)

\* lines 233-240, 278-283: the panel opens; loadSettings() runs up to its
\* first await (chrome.storage.local) and GET_CURRENT_TWEET is sent
Mount ==
  /\ panel = "closed"
  /\ budget < MaxEvents
  /\ panel' = "open"
  /\ ui' = InitialUi
  /\ loadSettings' = [pc |-> "prefs", ok |-> TRUE, saved |-> Null]
  /\ query' = [IdleQuery EXCEPT !.pc = "sent", !.alone = TRUE,
                                 !.closedWith = query.closedWith]
  /\ budget' = budget + 1
  /\ last' = NoEvent
  /\ UNCHANGED <<sidePanelState, tweetResultsCache, switches, gen, expls, now,
                 posts, faulty, failures>>
  /\ UNCHANGED <<saveVars, backgroundVars, sessionVars, utilVars, contentVars, touched>>

\* lines 235-263: the preferences have been read (six awaits on
\* chrome.storage.local, one yield; a rejection ends loadSettings); the API
\* key is set and sidePanelState is read
LoadSettingsPrefs ==
  /\ loadSettings.pc = "prefs"
  /\ \E okLocal \in Outcomes, ok \in Outcomes :
       /\ IF okLocal
          THEN /\ ui' = [ui EXCEPT !.apiKey = TRUE]
               /\ loadSettings' = [pc |-> "gotState", ok |-> ok,
                                   saved |-> IF ok THEN sidePanelState ELSE Null]
               /\ failures' = failures + (IF ok THEN 0 ELSE 1)
               /\ last' = NoEvent
          ELSE /\ ui' = ui
               /\ loadSettings' = [pc |-> "done", ok |-> FALSE, saved |-> Null]
               /\ failures' = failures + 1
               /\ last' = IF query.pc = "done"
                          THEN [MountEvent(loadSettings', query) EXCEPT !.clean = FALSE]
                          ELSE NoEvent
  /\ UNCHANGED <<panel, sidePanelState, tweetResultsCache, switches, gen, expls,
                 query, now, posts, faulty, budget>>
  /\ UNCHANGED <<saveVars, backgroundVars, sessionVars, utilVars, contentVars, touched>>

\* lines 264-275: adopt the truthy fields of the snapshot
Adopt(u, s) ==
  [u EXCEPT !.tweetData = IF s.tweetData # Null THEN s.tweetData ELSE @,
            !.generatedComment = IF s.generatedComment # "" THEN s.generatedComment ELSE @,
            !.tokenUsage = IF s.tokenUsage # "null" THEN s.tokenUsage ELSE @,
            !.tokenCost = IF s.tokenCost # "null" THEN s.tokenCost ELSE @,
            !.currentModel = IF s.currentModel # "" THEN s.currentModel ELSE @,
            !.commentExplanation =
               IF s.commentExplanation # "null" THEN s.commentExplanation ELSE @]

LoadSettingsGotState ==
  /\ loadSettings.pc = "gotState"
  /\ ui' = IF loadSettings.ok /\ loadSettings.saved # Null
           THEN Adopt(ui, Get(loadSettings.saved)) ELSE ui
  /\ loadSettings' = [loadSettings EXCEPT !.pc = "done"]
  /\ last' = IF query.pc = "done" THEN MountEvent(loadSettings, query) ELSE NoEvent
  /\ UNCHANGED <<panel, sidePanelState, tweetResultsCache, switches, gen, expls,
                 query, now, posts, faulty, failures, budget>>
  /\ UNCHANGED <<saveVars, backgroundVars, sessionVars, utilVars, contentVars, touched>>

\* lines 284-292: the response to GET_CURRENT_TWEET arrives: null (or a
\* rejection, line 322) ends the chain; a tweet is displayed and the
\* per-tweet cache is read
QueryRespond ==
  /\ query.pc = "sent"
  /\ \/ /\ query' = [query EXCEPT !.pc = "done"]
        /\ last' = IF loadSettings.pc = "done"
                   THEN MountEvent(loadSettings, query') ELSE NoEvent
        /\ UNCHANGED <<ui, failures>>
     \/ \E p \in posts, ok \in Outcomes :
          /\ ui' = [ui EXCEPT !.tweetData = Some(p)]
          /\ query' = [query EXCEPT !.pc = "gotCache", !.tweet = Some(p), !.ok = ok,
                                    !.existing = IF ok THEN ReadCache ELSE <<>>,
                                    !.entry = CachedFor(p)]
          /\ failures' = failures + (IF ok THEN 0 ELSE 1)
          /\ last' = NoEvent
  /\ UNCHANGED <<panel, sidePanelState, tweetResultsCache, switches, gen, expls,
                 loadSettings, now, posts, faulty, budget>>
  /\ UNCHANGED <<saveVars, backgroundVars, sessionVars, utilVars, contentVars, touched>>

\* lines 293-320: restore the cached results of the returned tweet; without
\* them sidePanelState is read and, same tweet or not, nothing is set
QueryGotCache ==
  /\ query.pc = "gotCache"
  /\ LET cachedResults ==
           IF query.ok THEN Lookup(query.existing, Slice(Get(query.tweet).text, KeyChars))
           ELSE Null
         hit == cachedResults # Null /\ Get(cachedResults).generatedComment # ""
     IN \E ok \in (IF hit THEN {TRUE} ELSE Outcomes) :
          /\ ui' = IF hit THEN restoreTweetResults(ui, Get(cachedResults)) ELSE ui
          /\ touched' = IF hit THEN touched \cup {Slice(Get(query.tweet).text, KeyChars)}
                        ELSE touched
          /\ query' = [query EXCEPT !.pc = "done"]
          /\ failures' = failures + (IF ok THEN 0 ELSE 1)
          /\ last' = IF loadSettings.pc = "done"
                     THEN [MountEvent(loadSettings, query') EXCEPT !.clean = @ /\ ok]
                     ELSE NoEvent
  /\ UNCHANGED <<panel, sidePanelState, tweetResultsCache, switches, gen, expls,
                 loadSettings, now, posts, faulty, budget>>
  /\ UNCHANGED <<saveVars, backgroundVars, sessionVars, utilVars, contentVars>>

\* what the user saw when closing: a post with a finished comment generated
\* for it and that comment's explanation, nothing in flight, no rejection
ClosedWith ==
  IF /\ Settled /\ failures = 0
     /\ ui.tweetData # Null
     /\ ui.generatedComment \in CommentsFor(Get(ui.tweetData))
     /\ ui.commentExplanation = ExplanationOf(ui.generatedComment)
     /\ ~ui.explanationError /\ ~ui.error
  THEN Some([tweet |-> Get(ui.tweetData), comment |-> ui.generatedComment])
  ELSE Null

\* the panel is closed: its page and every handler in flight are gone
Close ==
  /\ panel = "open"
  /\ panel' = "closed"
  /\ ui' = InitialUi
  /\ switches' = <<>> /\ gen' = Null /\ expls' = <<>>
  /\ loadSettings' = IdleLoad
  /\ query' = [IdleQuery EXCEPT !.closedWith = ClosedWith]
  /\ last' = NoEvent
  /\ UNCHANGED <<sidePanelState, tweetResultsCache, now, posts, faulty, failures, budget>>
  /\ UNCHANGED <<saveVars, backgroundVars, sessionVars, utilVars, contentVars, touched>>

\* ------------------------------------------------------ the panel's machine
\* A browser session starts with the panel closed and chrome.storage.session
\* empty.  ps are the posts the user meets, f whether storage calls may reject.
PanelInit(ps, f) ==
  /\ panel = "closed"
  /\ ui = InitialUi
  /\ sidePanelState = Null
  /\ switches = <<>> /\ gen = Null /\ expls = <<>>
  /\ loadSettings = IdleLoad /\ query = IdleQuery
  /\ posts = ps
  /\ faulty = f
  /\ failures = 0
  /\ budget = 0
  /\ last = NoEvent
  /\ touched = {}

\* no saveTweetResults call is taken on its own
SavesIdle == saves = <<>> /\ lastSave = Null /\ lastSkip = FALSE

\* the background worker has nothing stored and nothing in flight
Tabs == 1..MaxTabs
NoTweets == [c \in Tabs |-> Null]
NoBgEvent == [kind |-> "none", tab |-> Null, post |-> Null, data |-> Null, expected |-> Null]
BackgroundIdle ==
  /\ tweetCache = Null
  /\ calls = <<>>
  /\ tabs = Tabs
  /\ activeTab = Some(1)
  /\ reported = NoTweets
  /\ cleared = [c \in Tabs |-> 0]
  /\ lastBg = NoBgEvent

\* no sessionStorage call is taken on its own: the area is empty
SessionKeys == {"sidePanelState", "tweetCache"}
NoSessionCall == [kind |-> "none", key |-> "", value |-> Null]
SessionIdle ==
  /\ session = [k \in SessionKeys |-> Null]
  /\ sessionSaved = [k \in SessionKeys |-> Null]
  /\ lastSession = NoSessionCall

\* no tab has loaded the content script
\* tab is the tab of the run and tried the attempts argument of the tryExtract
\* call the run made, -1 when it made none
NoContentEvent ==
  [kind |-> "none", tab |-> Null, tried |-> -1, extracted |-> Null, sent |-> <<>>]
ContentIdle ==
  /\ content = [c \in Tabs |-> Null]
  /\ outbox = <<>>
  /\ lastContent = NoContentEvent

\* the modules of utils/ have not been called: both storage areas are
\* empty and no client has been made
AreaNames == {"local", "session"}
LocalKeys == {"persona", "rawWritings"}
AreaKeys(area) == IF area = "local" THEN LocalKeys ELSE SessionKeys
NoRead == [kind |-> "none", area |-> "", key |-> "", result |-> Null]
NoPersonaCall == [kind |-> "none", result |-> Null, before |-> Null, prev |-> "none"]
NoClientCall == [apiKey |-> "", client |-> 0, cached |-> Null, made |-> FALSE, calls |-> 0]
EmptyAreas == [a \in AreaNames |-> [k \in AreaKeys(a) |-> Null]]
UtilIdle ==
  /\ areas = EmptyAreas
  /\ opsLog = <<>>
  /\ lastRead = NoRead
  /\ clearing = "idle"
  /\ lastPersona = NoPersonaCall
  /\ cachedClient = Null
  /\ created = 0
  /\ lastClient = NoClientCall

InitWith(ps, f) ==
  /\ PanelInit(ps, f)
  /\ tweetResultsCache = Null
  /\ now = 0
  /\ SavesIdle
  /\ BackgroundIdle
  /\ SessionIdle
  /\ ContentIdle
  /\ UtilIdle

Next ==
  \/ Mount
  \/ LoadSettingsPrefs
  \/ LoadSettingsGotState
  \/ QueryRespond
  \/ QueryGotCache
  \/ Close
  \/ \E p \in posts : TweetClicked(p) /\ UNCHANGED contentVars
  \/ \E i \in 1..MaxInFlight : SwitchGotState(i)
  \/ \E i \in 1..MaxInFlight : SwitchPutGot(i)
  \/ \E i \in 1..MaxInFlight : SwitchPutSet(i)
  \/ \E i \in 1..MaxInFlight : SwitchLoadGot(i)
  \/ GenerateClick
  \/ GenChunk
  \/ GenComplete
  \/ GenFail
  \/ GenPrefsSet
  \/ GenStateSet
  \/ GenPutGot
  \/ ExplRetry
  \/ \E i \in 1..MaxInFlight : ExplComplete(i)
  \/ \E i \in 1..MaxInFlight : ExplFail(i)
  \/ \E i \in 1..MaxInFlight : ExplStateSet(i)
  \/ \E i \in 1..MaxInFlight : ExplPutGot(i)

Init == InitWith({PostA, PostB}, FALSE)
Spec == Init /\ [][Next]_vars
\* a chrome.storage call of handleGenerateComment returns (resolves or
\* rejects)
SpecGenerate == Spec /\ WF_vars(GenPrefsSet \/ GenStateSet \/ GenPutGot)

\* the same machine when chrome.storage calls may reject
InitFaulty == InitWith({PostA, PostB}, TRUE)
SpecFaulty == InitFaulty /\ [][Next]_vars

\* the same machine with two posts that share their first 200 characters
InitCollide == InitWith({PostA, PostA2}, FALSE)
SpecCollide == InitCollide /\ [][Next]_vars

\* ------------------------------------------- saveTweetResults on its own
\* saveTweetResults as a function of the stored cache, with the real
\* capacity: the calls are drawn from a set of posts and comments and start
\* from a stored cache of MaxCacheEntries - 1 or MaxCacheEntries entries.
FillerNames == <<"p01", "p02", "p03", "p04", "p05", "p06", "p07", "p08", "p09", "p10",
                 "p11", "p12">>
FillerPost(i) == [text |-> <<FillerNames[i]>>]
\* a stored cache of n entries whose entries at the positions in old carry
\* the least lastUpdated
StartCache(n, old) ==
  [i \in 1..n |->
     [key |-> getTweetKey(FillerPost(i)),
      val |-> Results("old", UsageOf("old"), CostOf("old"), SelectedModel, "null",
                      IF i \in old THEN 0 ELSE Min(1, MaxNow))]]
StartCaches ==
  {StartCache(n, {a, b}) : n \in {MaxCacheEntries - 1, MaxCacheEntries},
                           a \in 1..MaxCacheEntries, b \in 1..MaxCacheEntries}
\* the posts saveTweetResults is called with: two that are cached at the
\* start, one that is cached in a full cache only, and two that are not
SavedPosts ==
  {FillerPost(1), FillerPost(2), FillerPost(MaxCacheEntries),
   FillerPost(MaxCacheEntries + 1), FillerPost(MaxCacheEntries + 2)}

\* a saveTweetResults without the check of line 160
SaveTweetResultsUnchecked(tweet, comment) ==
  /\ Len(saves) < MaxInFlight
  /\ budget < MaxSaves
  /\ budget' = budget + 1
  /\ \E t \in Clock :
       /\ now' = t
       /\ saves' = Append(saves,
            [key |-> getTweetKey(tweet),
             results |-> Results(comment, UsageOf(comment), CostOf(comment),
                                 SelectedModel, "null", t),
             existing |-> ReadCache])
  /\ lastSave' = Null
  /\ lastSkip' = (comment = "")
  /\ UNCHANGED <<panel, ui, sidePanelState, switches, gen, expls, loadSettings, query,
                 posts, faulty, failures, last, touched, tweetResultsCache, backgroundVars, sessionVars, utilVars, contentVars>>

\* lines 147-162: the results are built and stamped; an empty comment
\* returns; the cache is read
SaveTweetResultsCall(tweet, comment) ==
  /\ Len(saves) < MaxInFlight
  /\ budget < MaxSaves
  /\ budget' = budget + 1
  /\ IF comment = ""
     THEN UNCHANGED <<saves, now>>
     ELSE \E t \in Clock :
            /\ now' = t
            /\ saves' = Append(saves,
                 [key |-> getTweetKey(tweet),
                  results |-> Results(comment, UsageOf(comment), CostOf(comment),
                                      SelectedModel, "null", t),
                  existing |-> ReadCache])
  /\ lastSave' = Null
  /\ lastSkip' = (comment = "")
  /\ UNCHANGED <<panel, ui, sidePanelState, switches, gen, expls, loadSettings, query,
                 posts, faulty, failures, last, touched, tweetResultsCache, backgroundVars, sessionVars, utilVars, contentVars>>

\* lines 163-176: evict, insert and write the cache back
SaveTweetResultsSet(i) ==
  /\ i \in 1..Len(saves)
  /\ LET call == saves[i]
         written == PutEntry(call.existing, call.key, call.results)
     IN /\ tweetResultsCache' = Some(written)
        /\ lastSave' = Some([existing |-> call.existing, key |-> call.key,
                             results |-> call.results, written |-> written])
  /\ saves' = RemoveAt(saves, i)
  /\ lastSkip' = FALSE
  /\ UNCHANGED <<panelVars, now, backgroundVars, sessionVars, utilVars, contentVars>>

InitSaves ==
  /\ PanelInit({}, FALSE)
  /\ tweetResultsCache \in {Null} \cup {Some(c) : c \in StartCaches}
  /\ now = Min(1, MaxNow)
  /\ SavesIdle
  /\ BackgroundIdle
  /\ SessionIdle
  /\ ContentIdle
  /\ UtilIdle
NextSaves ==
  \/ \E tweet \in SavedPosts, comment \in {"", "new"} : SaveTweetResultsCall(tweet, comment)
  \/ \E i \in 1..MaxInFlight : SaveTweetResultsSet(i)
SpecSaves == InitSaves /\ [][NextSaves]_vars

\* ------------------------------------- the panel opened on a full cache
\* The panel machine started in a browser session in which results were
\* generated for PostA first and for nine other posts after it: the stored
\* cache holds MaxCacheEntries entries, PostA's being the oldest, and the
\* stored snapshot is that of the last generation.
FullCache ==
  [i \in 1..MaxCacheEntries |->
     IF i = 1
     THEN [key |-> getTweetKey(PostA),
           val |-> Results(Tag(PostA) \o "1", UsageOf(Tag(PostA) \o "1"),
                           CostOf(Tag(PostA) \o "1"), SelectedModel, "null", 0)]
     ELSE [key |-> getTweetKey(FillerPost(i)),
           val |-> Results("old", UsageOf("old"), CostOf("old"), SelectedModel, "null",
                           Min(1, MaxNow))]]
InitFull ==
  /\ panel = "closed"
  /\ ui = InitialUi
  /\ sidePanelState = Some(State(Some(FillerPost(MaxCacheEntries)), "old", UsageOf("old"),
                                 CostOf("old"), SelectedModel, "null", Min(1, MaxNow)))
  /\ switches = <<>> /\ gen = Null /\ expls = <<>>
  /\ loadSettings = IdleLoad /\ query = IdleQuery
  /\ posts = {PostA, PostB}
  /\ faulty = FALSE
  /\ failures = 0
  /\ budget = 0
  /\ last = NoEvent
  /\ touched = {}
  /\ tweetResultsCache = Some(FullCache)
  /\ now = Min(1, MaxNow)
  /\ SavesIdle
  /\ BackgroundIdle
  /\ SessionIdle
  /\ ContentIdle
  /\ UtilIdle
SpecFull == InitFull /\ [][Next]_vars

\* ------------------------------------------------- the background worker
\* background/index.ts: tweetCache is an object keyed by String(tabId); the
\* stored value is a function from the tab ids to nullable posts.
\* result.tweetCache || {}
ReadTweetCache == IF tweetCache = Null THEN NoTweets ELSE Get(tweetCache)

\* a message or an event for tab c overtakes the calls in flight and the
\* completed report for c
Overtaken(cs, c) ==
  [i \in 1..Len(cs) |-> IF cs[i].tab = Some(c) THEN [cs[i] EXCEPT !.fresh = FALSE] ELSE cs[i]]

\* the outcomes of a chrome.storage.session call of the background: TRUE
\* resolves, FALSE rejects
BgOutcomes == IF faulty THEN BOOLEAN ELSE {TRUE}

\* lines 38-54: TWEET_CLICKED from the content script of tab c.
\* setCachedTweet runs up to its await (the cache is read) and, in the same
\* run, chrome.sidePanel.open is called.  What becomes of the message
\* (contentVars) is the sender's part of the step.  expected of the call is
\* the post of the completed report for c that this report follows.
BgTweetClicked(c, p) ==
  /\ c \in tabs
  /\ budget < MaxMessages
  /\ Len(calls) < MaxInFlight
  /\ budget' = budget + 1
  /\ calls' = Append(Overtaken(calls, c),
       [kind |-> "set", tab |-> Some(c), data |-> Some(p), pc |-> "gotCache",
        cache |-> ReadTweetCache, fresh |-> TRUE, expected |-> reported[c]])
  /\ reported' = [reported EXCEPT ![c] = Null]
  /\ cleared' = [cleared EXCEPT ![c] = 0]
  /\ lastBg' = [kind |-> "open", tab |-> Some(c), post |-> Some(p),
                data |-> ReadTweetCache[c], expected |-> Some(p)]
  /\ UNCHANGED <<tweetCache, tabs, activeTab>>
  /\ UNCHANGED <<panel, ui, sidePanelState, switches, gen, expls, loadSettings, query,
                 posts, faulty, failures, last, touched, tweetResultsCache, now, saveVars, sessionVars, utilVars>>

\* a setCachedTweet that also puts the post into the stored snapshot
SetCachedTweetSetShared(i) ==
  /\ i \in 1..Len(calls)
  /\ calls[i].kind = "set" /\ calls[i].pc = "gotCache"
  /\ tweetCache' = Some([calls[i].cache EXCEPT ![Get(calls[i].tab)] = calls[i].data])
  /\ sidePanelState' = IF sidePanelState = Null THEN Null
                       ELSE Some([Get(sidePanelState) EXCEPT !.tweetData = calls[i].data])
  /\ calls' = [calls EXCEPT ![i].pc = "written"]
  /\ cleared' = [cleared EXCEPT ![Get(calls[i].tab)] = 0]
  /\ lastBg' = NoBgEvent
  /\ UNCHANGED <<tabs, activeTab, reported>>
  /\ UNCHANGED <<panel, ui, switches, gen, expls, loadSettings, query,
                 posts, faulty, failures, budget, last, touched>>
  /\ UNCHANGED <<tweetResultsCache, now, saveVars, sessionVars, utilVars, contentVars>>

\* setCachedTweet, lines 15-17: the entry is set in the object that was
\* read and the object is written back
SetCachedTweetSet(i) ==
  /\ i \in 1..Len(calls)
  /\ calls[i].kind = "set" /\ calls[i].pc = "gotCache"
  /\ \E ok \in BgOutcomes :
       IF ok
       THEN /\ tweetCache' = Some([calls[i].cache EXCEPT ![Get(calls[i].tab)] = calls[i].data])
            /\ calls' = [calls EXCEPT ![i].pc = "written"]
            /\ cleared' = [cleared EXCEPT ![Get(calls[i].tab)] = 0]
       ELSE /\ calls' = RemoveAt(calls, i)
            /\ UNCHANGED <<tweetCache, cleared>>
  /\ lastBg' = NoBgEvent
  /\ UNCHANGED <<tabs, activeTab, reported>>
  /\ UNCHANGED <<panelVars, tweetResultsCache, now, saveVars, sessionVars, utilVars, contentVars>>

\* lines 17-18, 44: the write has returned and setCachedTweet resolves
SetCachedTweetDone(i) ==
  /\ i \in 1..Len(calls)
  /\ calls[i].kind = "set" /\ calls[i].pc = "written"
  /\ reported' = IF calls[i].fresh
                 THEN [reported EXCEPT ![Get(calls[i].tab)] = calls[i].data]
                 ELSE reported
  /\ calls' = RemoveAt(calls, i)
  /\ lastBg' = NoBgEvent
  /\ UNCHANGED <<tweetCache, tabs, activeTab, cleared>>
  /\ UNCHANGED <<panelVars, tweetResultsCache, now, saveVars, sessionVars, utilVars, contentVars>>

\* lines 80-84: tab c is closed; removeCachedTweet runs up to its await
TabRemoved(c) ==
  /\ c \in tabs
  /\ budget < MaxMessages
  /\ Len(calls) < MaxInFlight
  /\ budget' = budget + 1
  /\ tabs' = tabs \ {c}
  /\ activeTab' \in IF activeTab # Some(c) THEN {activeTab}
                    ELSE IF tabs' = {} THEN {Null} ELSE {Some(d) : d \in tabs'}
  /\ calls' = Append(Overtaken(calls, c),
       [kind |-> "remove", tab |-> Some(c), data |-> Null, pc |-> "gotCache",
        cache |-> ReadTweetCache, fresh |-> TRUE, expected |-> Null])
  /\ reported' = [reported EXCEPT ![c] = Null]
  /\ lastBg' = NoBgEvent
  /\ UNCHANGED <<tweetCache, cleared>>
  /\ UNCHANGED <<panel, ui, sidePanelState, switches, gen, expls, loadSettings, query,
                 posts, faulty, failures, last, touched, tweetResultsCache, now, saveVars, sessionVars, utilVars, contentVars>>

\* a removeCachedTweet that writes the object back as it was read
RemoveCachedTweetKeep(i) ==
  /\ i \in 1..Len(calls)
  /\ calls[i].kind = "remove"
  /\ tweetCache' = Some(calls[i].cache)
  /\ calls' = RemoveAt(calls, i)
  /\ cleared' = [cleared EXCEPT ![Get(calls[i].tab)] = Min(@ + 1, MaxClears)]
  /\ lastBg' = [kind |-> "removed", tab |-> calls[i].tab, post |-> Null,
                data |-> Get(tweetCache')[Get(calls[i].tab)], expected |-> Null]
  /\ UNCHANGED <<tabs, activeTab, reported>>
  /\ UNCHANGED <<panelVars, tweetResultsCache, now, saveVars, sessionVars, utilVars, contentVars>>

\* removeCachedTweet, lines 22-24: the entry is deleted from the object that
\* was read and the object is written back
RemoveCachedTweetSet(i) ==
  /\ i \in 1..Len(calls)
  /\ calls[i].kind = "remove"
  /\ \E ok \in BgOutcomes :
       IF ok
       THEN /\ tweetCache' = Some([calls[i].cache EXCEPT ![Get(calls[i].tab)] = Null])
            /\ cleared' = [cleared EXCEPT ![Get(calls[i].tab)] = Min(@ + 1, MaxClears)]
            /\ lastBg' = [kind |-> "removed", tab |-> calls[i].tab, post |-> Null,
                          data |-> Get(tweetCache')[Get(calls[i].tab)], expected |-> Null]
       ELSE /\ UNCHANGED <<tweetCache, cleared>>
            /\ lastBg' = NoBgEvent
  /\ calls' = RemoveAt(calls, i)
  /\ UNCHANGED <<tabs, activeTab, reported>>
  /\ UNCHANGED <<panelVars, tweetResultsCache, now, saveVars, sessionVars, utilVars, contentVars>>

\* the user moves to another open tab
TabActivated(c) ==
  /\ c \in tabs
  /\ activeTab # Some(c)
  /\ activeTab' = Some(c)
  /\ lastBg' = NoBgEvent
  /\ UNCHANGED <<tweetCache, calls, tabs, reported, cleared>>
  /\ UNCHANGED <<panelVars, tweetResultsCache, now, saveVars, sessionVars, utilVars, contentVars>>

\* lines 57-63: GET_CURRENT_TWEET from the panel; chrome.tabs.query finds
\* the active tab.  expected is the post of the completed report for it.
BgGetCurrentTweet ==
  /\ budget < MaxMessages
  /\ Len(calls) < MaxInFlight
  /\ budget' = budget + 1
  /\ calls' = Append(calls,
       [kind |-> "get", tab |-> activeTab, data |-> Null, pc |-> "tabs",
        cache |-> NoTweets, fresh |-> TRUE,
        expected |-> IF activeTab = Null THEN Null ELSE reported[Get(activeTab)]])
  /\ lastBg' = NoBgEvent
  /\ UNCHANGED <<tweetCache, tabs, activeTab, reported, cleared>>
  /\ UNCHANGED <<panel, ui, sidePanelState, switches, gen, expls, loadSettings, query,
                 posts, faulty, failures, last, touched, tweetResultsCache, now, saveVars, sessionVars, utilVars, contentVars>>

BgAnswer(call, data) ==
  [kind |-> "answer", tab |-> call.tab, post |-> Null, data |-> data,
   expected |-> IF call.fresh THEN call.expected ELSE Null]

\* lines 61-69: the callback of chrome.tabs.query: without a tab the answer
\* is null, else getCachedTweet runs up to its await (the cache is read)
GetCurrentTweetTabs(i) ==
  /\ i \in 1..Len(calls)
  /\ calls[i].kind = "get" /\ calls[i].pc = "tabs"
  /\ IF calls[i].tab = Null
     THEN /\ calls' = RemoveAt(calls, i)
          /\ lastBg' = BgAnswer(calls[i], Null)
     ELSE /\ calls' = [calls EXCEPT ![i].pc = "gotCache", ![i].cache = ReadTweetCache]
          /\ lastBg' = NoBgEvent
  /\ UNCHANGED <<tweetCache, tabs, activeTab, reported, cleared>>
  /\ UNCHANGED <<panelVars, tweetResultsCache, now, saveVars, sessionVars, utilVars, contentVars>>

\* a handler that answers with the entry of the first tab that has one
GetCurrentTweetRespondAny(i) ==
  /\ i \in 1..Len(calls)
  /\ calls[i].kind = "get" /\ calls[i].pc = "gotCache"
  /\ calls' = RemoveAt(calls, i)
  /\ LET held == {c \in Tabs : calls[i].cache[c] # Null}
     IN lastBg' = BgAnswer(calls[i],
                           IF held = {} THEN Null
                           ELSE calls[i].cache[CHOOSE c \in held : \A d \in held : c <= d])
  /\ UNCHANGED <<tweetCache, tabs, activeTab, reported, cleared>>
  /\ UNCHANGED <<panelVars, tweetResultsCache, now, saveVars, sessionVars, utilVars, contentVars>>

\* getCachedTweet, lines 9-10, and line 66: cache[String(tabId)] || null is
\* sent as the response.  When the read of line 8 rejects, the await of line
\* 64 throws out of the callback and sendResponse is not reached.
GetCurrentTweetRespond(i) ==
  /\ i \in 1..Len(calls)
  /\ calls[i].kind = "get" /\ calls[i].pc = "gotCache"
  /\ calls' = RemoveAt(calls, i)
  /\ \E ok \in BgOutcomes :
       lastBg' = IF ok THEN BgAnswer(calls[i], calls[i].cache[Get(calls[i].tab)])
                 ELSE [BgAnswer(calls[i], Null) EXCEPT !.kind = "unanswered"]
  /\ UNCHANGED <<tweetCache, tabs, activeTab, reported, cleared>>
  /\ UNCHANGED <<panelVars, tweetResultsCache, now, saveVars, sessionVars, utilVars, contentVars>>

InitBackground ==
  /\ PanelInit({PostA, PostB}, FALSE)
  /\ tweetResultsCache = Null
  /\ now = 0
  /\ SavesIdle
  /\ BackgroundIdle
  /\ SessionIdle
  /\ ContentIdle
  /\ UtilIdle
\* the background worker over a session storage whose calls may reject
InitBackgroundFaulty ==
  /\ PanelInit({PostA, PostB}, TRUE)
  /\ tweetResultsCache = Null
  /\ now = 0
  /\ SavesIdle
  /\ BackgroundIdle
  /\ SessionIdle
  /\ ContentIdle
  /\ UtilIdle
NextBackground ==
  \/ \E c \in Tabs, p \in posts : BgTweetClicked(c, p) /\ UNCHANGED contentVars
  \/ \E i \in 1..MaxInFlight : SetCachedTweetSet(i)
  \/ \E i \in 1..MaxInFlight : SetCachedTweetDone(i)
  \/ \E c \in Tabs : TabRemoved(c)
  \/ \E i \in 1..MaxInFlight : RemoveCachedTweetSet(i)
  \/ \E c \in Tabs : TabActivated(c)
  \/ BgGetCurrentTweet
  \/ \E i \in 1..MaxInFlight : GetCurrentTweetTabs(i)
  \/ \E i \in 1..MaxInFlight : GetCurrentTweetRespond(i)
SpecBackground == InitBackground /\ [][NextBackground]_vars
SpecBackgroundFaulty == InitBackgroundFaulty /\ [][NextBackground]_vars

\* --------------------------------- the panel and the background together
\* Both programs run over the same chrome.storage.session area, whose three
\* keys are the variables sidePanelState, tweetResultsCache and tweetCache;
\* their steps interleave freely.
NextBoth == Next \/ NextBackground
SpecBoth == Init /\ [][NextBoth]_vars

\* ------------------------------------- the tweetCache helpers in sequence
\* background/index.ts lines 7-25 taken as the operations of a cache: each
\* call is made when the previous one has returned, and removeCachedTweet
\* is called for any tab id, as often as the caller likes.

\* setCachedTweet(c, p) by way of TWEET_CLICKED, lines 38-44
SequentialSet(c, p) == calls = <<>> /\ BgTweetClicked(c, p) /\ UNCHANGED contentVars

\* removeCachedTweet(c), lines 20-21: runs up to its await (the cache is read)
RemoveCachedTweetCall(c) ==
  /\ calls = <<>>
  /\ budget < MaxMessages
  /\ budget' = budget + 1
  /\ calls' = Append(calls,
       [kind |-> "remove", tab |-> Some(c), data |-> Null, pc |-> "gotCache",
        cache |-> ReadTweetCache, fresh |-> TRUE, expected |-> Null])
  /\ lastBg' = NoBgEvent
  /\ UNCHANGED <<tweetCache, tabs, activeTab, reported, cleared>>
  /\ UNCHANGED <<panel, ui, sidePanelState, switches, gen, expls, loadSettings, query,
                 posts, faulty, failures, last, touched, tweetResultsCache, now, saveVars, sessionVars, utilVars, contentVars>>

\* getCachedTweet(active tab) by way of GET_CURRENT_TWEET, lines 57-69
SequentialGet == calls = <<>> /\ BgGetCurrentTweet

NextSequential ==
  \/ \E c \in Tabs, p \in posts : SequentialSet(c, p)
  \/ \E i \in 1..MaxInFlight : SetCachedTweetSet(i)
  \/ \E i \in 1..MaxInFlight : SetCachedTweetDone(i)
  \/ \E c \in Tabs : RemoveCachedTweetCall(c)
  \/ \E i \in 1..MaxInFlight : RemoveCachedTweetSet(i)
  \/ \E c \in Tabs : TabActivated(c)
  \/ SequentialGet
  \/ \E i \in 1..MaxInFlight : GetCurrentTweetTabs(i)
  \/ \E i \in 1..MaxInFlight : GetCurrentTweetRespond(i)
SpecSequential == InitBackground /\ [][NextSequential]_vars
\* part_002 lines 51-59 over chrome.storage.session (tests/mocks/chrome.ts):
\* an area is a map from key to value, an absent key is Null here.

\* the SidePanelState values a caller may save
SnapshotTweets == {Null, Some(PostA), Some(PostB)}
SnapshotComments == {"", "aa1"}
Snapshots ==
  {State(tw, c, u, co, m, e, t) :
     tw \in SnapshotTweets, c \in SnapshotComments,
     u \in {"null", UsageOf("aa1")}, co \in {"null", CostOf("aa1")},
     m \in {"", SelectedModel}, e \in {"null", ExplanationOf("aa1")},
     t \in 0..MaxNow}
\* the tweetCache values the background may save
TweetCaches == {NoTweets, [NoTweets EXCEPT ![1] = Some(PostA)]}
SessionValues(key) == IF key = "sidePanelState" THEN Snapshots ELSE TweetCaches

\* a set that merges into the stored snapshot: a post of the stored value
\* survives a snapshot that has none
StoreSetMerging(store, items) ==
  [k \in DOMAIN store |->
     IF k \in DOMAIN items
     THEN IF k = "sidePanelState" /\ store[k] # Null /\ items[k].tweetData = Null
          THEN Some([items[k] EXCEPT !.tweetData = Get(store[k]).tweetData])
          ELSE Some(items[k])
     ELSE store[k]]

\* a set that replaces the whole area by its items
StoreSetOnly(store, items) ==
  [k \in DOMAIN store |-> IF k \in DOMAIN items THEN Some(items[k]) ELSE Null]

\* chrome.storage.session.set(items): every key of items is replaced by the
\* item's value, the other keys keep theirs
StoreSet(store, items) ==
  [k \in DOMAIN store |-> IF k \in DOMAIN items THEN Some(items[k]) ELSE store[k]]

\* chrome.storage.session.get(key): an object holding the key when it is
\* stored, the empty object otherwise
StoreGet(store, key) ==
  [k \in {j \in {key} : store[j] # Null} |-> Get(store[k])]

\* sessionStorage.set, lines 57-59: the items object is { [key]: value }
SessionSet(key, value) ==
  /\ session' = StoreSet(session, [k \in {key} |-> value])
  /\ sessionSaved' = [sessionSaved EXCEPT ![key] =
                         Some([value |-> value,
                               replaced |-> @ # Null /\ Get(@).value # value])]
  /\ lastSession' = [kind |-> "set", key |-> key, value |-> Some(value)]
  /\ UNCHANGED <<panelVars, tweetResultsCache, now, saveVars, backgroundVars, contentVars, utilVars>>

\* sessionStorage.get, lines 52-55: result[key], undefined (Null) when the
\* object returned has no such key
SessionGet(key) ==
  /\ LET result == StoreGet(session, key)
     IN lastSession' = [kind |-> "get", key |-> key,
                        value |-> IF key \in DOMAIN result THEN Some(result[key]) ELSE Null]
  /\ UNCHANGED <<session, sessionSaved>>
  /\ UNCHANGED <<panelVars, tweetResultsCache, now, saveVars, backgroundVars, contentVars, utilVars>>

InitSession ==
  /\ PanelInit({}, FALSE)
  /\ tweetResultsCache = Null
  /\ now = 0
  /\ SavesIdle
  /\ BackgroundIdle
  /\ SessionIdle
  /\ ContentIdle
  /\ UtilIdle
NextSession ==
  \/ \E key \in SessionKeys : \E value \in SessionValues(key) : SessionSet(key, value)
  \/ \E key \in SessionKeys : SessionGet(key)
SpecSession == InitSession /\ [][NextSession]_vars

\* ------------------------------------------------------ the content script
\* content/index.ts and content/extractors.ts, one instance per tab.  A text
\* is a sequence of blocks; the block " " is white space.
Urls == {"home", "status"}
\* extractors.ts lines 4-6
isOnTweetDetailPage(url) == url = "status"

\* String.prototype.trim
RECURSIVE TrimStart(_)
TrimStart(t) == IF t # <<>> /\ Head(t) = " " THEN TrimStart(Tail(t)) ELSE t
RECURSIVE TrimEnd(_)
TrimEnd(t) == IF t # <<>> /\ t[Len(t)] = " " THEN TrimEnd(SubSeq(t, 1, Len(t) - 1)) ELSE t
Trim(t) == TrimEnd(TrimStart(t))

\* what querySelector('[data-testid="tweetText"]') finds: no element (Null)
\* or an element with its textContent
DomTexts == {<<>>, <<" ">>, <<" ", "b">>, <<"a", "a", "x", " ">>}
TweetTextElements == {Null} \cup {Some(t) : t \in DomTexts}
\* what target.closest finds at a click: an article with
\* data-testid="tweet", another article, or none
Articles == {"tweet", "article", "none"}

\* extractors.ts lines 9-30 and 33-58, el being the tweetText element found
extractMainTweetData(el) == IF el = Null THEN Null ELSE Some([text |-> Trim(Get(el))])
extractTweetData(el) == IF el = Null THEN Null ELSE Some([text |-> Trim(Get(el))])

\* what a run of the content script leaves: the extraction made, the posts
\* handed to sendTweetData and the timers set
Ran(tweetData, sent, timers) == [extracted |-> tweetData, sent |-> sent, timers |-> timers]
NoTimers == <<>>
Timer(kind, attempts) == [kind |-> kind, attempts |-> attempts]

\* a tryExtract that sends whatever was extracted
tryExtractUnchecked(attempts, el) ==
  LET tweetData == extractMainTweetData(el) IN
  IF tweetData # Null
  THEN Ran(tweetData, <<Get(tweetData)>>, NoTimers)
  ELSE IF attempts < MaxAttempts
       THEN Ran(tweetData, <<>>, <<Timer("tryExtract", attempts + 1)>>)
       ELSE Ran(tweetData, <<>>, NoTimers)

\* a tryExtract that retries once more
tryExtractOneMore(attempts, el) ==
  LET tweetData == extractMainTweetData(el) IN
  IF tweetData # Null /\ Get(tweetData).text # <<>>
  THEN Ran(tweetData, <<Get(tweetData)>>, NoTimers)
  ELSE IF attempts <= MaxAttempts
       THEN Ran(tweetData, <<>>, <<Timer("tryExtract", attempts + 1)>>)
       ELSE Ran(tweetData, <<>>, NoTimers)

\* tryExtract, index.ts lines 31-43
tryExtract(attempts, el) ==
  LET tweetData == extractMainTweetData(el) IN
  IF tweetData # Null /\ Get(tweetData).text # <<>>
  THEN Ran(tweetData, <<Get(tweetData)>>, NoTimers)
  ELSE IF attempts < MaxAttempts
       THEN Ran(tweetData, <<>>, <<Timer("tryExtract", attempts + 1)>>)
       ELSE Ran(tweetData, <<>>, NoTimers)

\* autoDetectTweetOnDetailPage, index.ts lines 22-46
autoDetectTweetOnDetailPage(url, el) ==
  IF ~isOnTweetDetailPage(url) THEN Ran(Null, <<>>, NoTimers) ELSE tryExtract(0, el)

\* sendTweetData, index.ts lines 8-19: chrome.runtime.sendMessage hands the
\* message to the listeners of the background and of the panel
sendTweetData(c, sent) ==
  outbox \o [i \in 1..Len(sent) |-> [tab |-> c, data |-> sent[i], bg |-> TRUE, panel |-> TRUE]]

\* the rest of the program during a step of the content script
ContentFrame ==
  UNCHANGED <<panel, ui, sidePanelState, switches, gen, expls, loadSettings, query,
              posts, faulty, failures, last, touched, tweetResultsCache, now,
              saveVars, backgroundVars, sessionVars, utilVars>>

\* initContentScript, index.ts lines 62-130, in tab c showing url
ContentLoad(c, url, el) ==
  /\ c \in tabs /\ content[c] = Null
  /\ budget < MaxMessages /\ Len(outbox) < MaxUnsent
  /\ budget' = budget + 1
  /\ LET ran == autoDetectTweetOnDetailPage(url, el) IN
       /\ content' = [content EXCEPT ![c] = Some([location |-> url, timers |-> ran.timers])]
       /\ outbox' = sendTweetData(c, ran.sent)
       /\ lastContent' = [kind |-> "load", tab |-> Some(c),
                         tried |-> IF isOnTweetDetailPage(url) THEN 0 ELSE -1,
                         extracted |-> ran.extracted, sent |-> ran.sent]
  /\ ContentFrame

\* handleUrlChange, index.ts lines 51-59, at a navigation of the page to url
ContentNavigate(c, url) ==
  /\ c \in tabs /\ content[c] # Null
  /\ Get(content[c]).location # url
  /\ budget < MaxMessages
  /\ budget' = budget + 1
  /\ content' = [content EXCEPT ![c] =
       Some([location |-> url,
             timers |-> Append(Get(content[c]).timers, Timer("autoDetect", 0))])]
  /\ lastContent' = [kind |-> "navigate", tab |-> Some(c), tried |-> -1,
                    extracted |-> Null, sent |-> <<>>]
  /\ UNCHANGED outbox
  /\ ContentFrame

\* the oldest timer of tab c fires: autoDetectTweetOnDetailPage (line 57) or
\* tryExtract(attempts + 1) (line 39)
ContentTimer(c, el) ==
  /\ c \in tabs /\ content[c] # Null
  /\ Get(content[c]).timers # <<>>
  /\ Len(outbox) < MaxUnsent
  /\ LET cs == Get(content[c])
         t == Head(cs.timers)
         ran == IF t.kind = "autoDetect"
                THEN autoDetectTweetOnDetailPage(cs.location, el)
                ELSE tryExtract(t.attempts, el)
     IN /\ content' = [content EXCEPT ![c] =
             Some([cs EXCEPT !.timers = Tail(cs.timers) \o ran.timers])]
        /\ outbox' = sendTweetData(c, ran.sent)
        /\ lastContent' = [kind |-> "timer", tab |-> Some(c),
                          tried |-> IF t.kind = "tryExtract" THEN t.attempts
                                    ELSE IF isOnTweetDetailPage(cs.location) THEN 0
                                    ELSE -1,
                          extracted |-> ran.extracted, sent |-> ran.sent]
  /\ UNCHANGED budget
  /\ ContentFrame

\* the click listener, index.ts lines 91-127
ContentClick(c, article, el) ==
  /\ c \in tabs /\ content[c] # Null
  /\ budget < MaxMessages /\ Len(outbox) < MaxUnsent
  /\ budget' = budget + 1
  /\ LET tweetData == IF article # "none" THEN extractTweetData(el)
                      ELSE IF isOnTweetDetailPage(Get(content[c]).location)
                           THEN extractMainTweetData(el)
                           ELSE Null
         sent == IF tweetData # Null /\ Get(tweetData).text # <<>>
                 THEN <<Get(tweetData)>> ELSE <<>>
     IN /\ outbox' = sendTweetData(c, sent)
        /\ lastContent' = [kind |-> "click", tab |-> Some(c), tried |-> -1,
                          extracted |-> tweetData, sent |-> sent]
  /\ UNCHANGED content
  /\ ContentFrame

\* message i after one of its listeners has had it
Received(i, listener) ==
  LET m == IF listener = "bg" THEN [outbox[i] EXCEPT !.bg = FALSE]
           ELSE [outbox[i] EXCEPT !.panel = FALSE]
  IN IF m.bg \/ m.panel THEN [outbox EXCEPT ![i] = m]
     ELSE SubSeq(outbox, 1, i - 1) \o SubSeq(outbox, i + 1, Len(outbox))

\* the background's listener receives message i
ContentDeliverBackground(i) ==
  /\ i \in 1..Len(outbox) /\ outbox[i].bg
  /\ BgTweetClicked(outbox[i].tab, outbox[i].data)
  /\ outbox' = Received(i, "bg")
  /\ lastContent' = NoContentEvent
  /\ UNCHANGED content

\* the panel's listener receives message i
ContentDeliverPanel(i) ==
  /\ i \in 1..Len(outbox) /\ outbox[i].panel
  /\ TweetClicked(outbox[i].data)
  /\ outbox' = Received(i, "panel")
  /\ lastContent' = NoContentEvent
  /\ UNCHANGED content

\* no panel is open: message i has no listener there
ContentNoPanel(i) ==
  /\ i \in 1..Len(outbox) /\ outbox[i].panel
  /\ panel = "closed"
  /\ outbox' = Received(i, "panel")
  /\ lastContent' = NoContentEvent
  /\ UNCHANGED <<content, budget>>
  /\ ContentFrame

\* The three programs together; the posts the background and the panel
\* receive are those the content scripts send.  No comment is generated in
\* these runs, so a switch has no results to save.
InitContent == InitWith({}, FALSE)
NextContent ==
  \/ \E c \in Tabs, url \in Urls, el \in TweetTextElements : ContentLoad(c, url, el)
  \/ \E c \in Tabs, url \in Urls : ContentNavigate(c, url)
  \/ \E c \in Tabs, el \in TweetTextElements : ContentTimer(c, el)
  \/ \E c \in Tabs, article \in Articles, el \in TweetTextElements : ContentClick(c, article, el)
  \/ \E i \in 1..MaxUnsent : ContentDeliverBackground(i)
  \/ \E i \in 1..MaxUnsent : ContentDeliverPanel(i)
  \/ \E i \in 1..MaxUnsent : ContentNoPanel(i)
  \/ \E i \in 1..MaxInFlight : SetCachedTweetSet(i)
  \/ \E i \in 1..MaxInFlight : SetCachedTweetDone(i)
  \/ \E c \in Tabs : TabRemoved(c)
  \/ \E i \in 1..MaxInFlight : RemoveCachedTweetSet(i)
  \/ Mount
  \/ LoadSettingsPrefs
  \/ LoadSettingsGotState
  \/ QueryRespond
  \/ \E i \in 1..MaxInFlight : SwitchGotState(i)
  \/ \E i \in 1..MaxInFlight : SwitchLoadGot(i)
SpecContent == InitContent /\ [][NextContent]_vars
\* setTimeout: a timer that was set fires
SpecContentFair ==
  SpecContent /\ \A c \in Tabs : WF_vars(\E el \in TweetTextElements : ContentTimer(c, el))

\* ------------------------------------------------- the storage wrappers
\* part_002 lines 28-72: storage over chrome.storage.local and sessionStorage
\* over chrome.storage.session (tests/mocks/chrome.ts, one Map per area).
\* Each method is one call of the area.

\* the values a caller may set
WrapperValues(area, key) ==
  IF area = "local"
  THEN IF key = "persona" THEN {"persona1", "persona2"} ELSE {<<>>, <<"w">>}
  ELSE IF key = "sidePanelState"
       THEN {State(Null, "", "null", "null", "", "null", 0),
             State(Some(PostA), "aa1", UsageOf("aa1"), CostOf("aa1"), SelectedModel, "null", 0)}
       ELSE TweetCaches

\* chrome.storage remove(key), mocks/chrome.ts lines 42-50
StoreRemove(store, key) == [k \in DOMAIN store |-> IF k = key THEN Null ELSE store[k]]
\* chrome.storage clear(), mocks/chrome.ts lines 52-54
StoreClear(store) == [k \in DOMAIN store |-> Null]
\* chrome.storage get(null), mocks/chrome.ts lines 13-20
StoreGetAll(store) == [k \in {j \in DOMAIN store : store[j] # Null} |-> Get(store[k])]

Logged(kind, area, key, value) == [kind |-> kind, area |-> area, key |-> key, value |-> value]
WrapperFrame ==
  UNCHANGED <<panelVars, tweetResultsCache, now, saveVars, backgroundVars, sessionVars,
              contentVars, personaVars, clientVars>>

\* storage.set / sessionStorage.set, lines 34-36 and 57-59
WrapperSet(area, key, value) ==
  /\ Len(opsLog) < MaxCalls
  /\ areas' = [areas EXCEPT ![area] = StoreSet(@, [k \in {key} |-> value])]
  /\ opsLog' = Append(opsLog, Logged("set", area, key, Some(value)))
  /\ lastRead' = NoRead
  /\ WrapperFrame

\* storage.remove / sessionStorage.remove, lines 42-44 and 65-67
WrapperRemove(area, key) ==
  /\ Len(opsLog) < MaxCalls
  /\ areas' = [areas EXCEPT ![area] = StoreRemove(@, key)]
  /\ opsLog' = Append(opsLog, Logged("remove", area, key, Null))
  /\ lastRead' = NoRead
  /\ WrapperFrame

\* storage.clear / sessionStorage.clear, lines 46-48 and 69-71
WrapperClear(area) ==
  /\ Len(opsLog) < MaxCalls
  /\ areas' = [areas EXCEPT ![area] = StoreClear(@)]
  /\ opsLog' = Append(opsLog, Logged("clear", area, "", Null))
  /\ lastRead' = NoRead
  /\ WrapperFrame

\* storage.get / sessionStorage.get, lines 29-32 and 52-55: result[key],
\* undefined (Null) when the object returned has no such key
WrapperGet(area, key) ==
  /\ LET result == StoreGet(areas[area], key)
     IN lastRead' = [kind |-> "get", area |-> area, key |-> key,
                     result |-> IF key \in DOMAIN result THEN Some(result[key]) ELSE Null]
  /\ UNCHANGED <<areas, opsLog>>
  /\ WrapperFrame

\* storage.getAll / sessionStorage.getAll, lines 38-40 and 61-63
WrapperGetAll(area) ==
  /\ lastRead' = [kind |-> "getAll", area |-> area, key |-> "",
                  result |-> StoreGetAll(areas[area])]
  /\ UNCHANGED <<areas, opsLog>>
  /\ WrapperFrame

InitWrappers == InitWith({}, FALSE)
NextWrappers ==
  \/ \E area \in AreaNames, key \in LocalKeys \cup SessionKeys :
       \E value \in WrapperValues(area, key) :
         key \in AreaKeys(area) /\ WrapperSet(area, key, value)
  \/ \E area \in AreaNames, key \in LocalKeys \cup SessionKeys :
       key \in AreaKeys(area) /\ WrapperRemove(area, key)
  \/ \E area \in AreaNames : WrapperClear(area)
  \/ \E area \in AreaNames, key \in LocalKeys \cup SessionKeys :
       key \in AreaKeys(area) /\ WrapperGet(area, key)
  \/ \E area \in AreaNames : WrapperGetAll(area)
SpecWrappers == InitWrappers /\ [][NextWrappers]_vars

\* ----------------------------------------------------------- persona.ts
\* utils/persona.ts lines 120-141 over storage (chrome.storage.local); a
\* call is made when the previous one has returned.
Personas == {"persona1", "persona2"}
Writings == {<<>>, <<"w">>}
PersonaFrame ==
  UNCHANGED <<panelVars, tweetResultsCache, now, saveVars, backgroundVars, sessionVars,
              contentVars, clientVars>>
\* the record of a call that returned: its result, the local area when it
\* was made, and the saving or clearing call that returned before it
PersonaCall(kind, result, before, prev) ==
  [kind |-> kind, result |-> result, before |-> before, prev |-> prev]
\* the latest saving or clearing call that has returned
LastChange ==
  IF lastPersona.kind \in {"savePersona", "saveRawWritings", "clearPersona"}
  THEN lastPersona.kind ELSE lastPersona.prev

\* savePersona, lines 120-122
SavePersona(persona) ==
  /\ clearing = "idle" /\ Len(opsLog) < MaxCalls
  /\ areas' = [areas EXCEPT !["local"] = StoreSet(@, [k \in {"persona"} |-> persona])]
  /\ opsLog' = Append(opsLog, Logged("set", "local", "persona", Some(persona)))
  /\ lastPersona' = PersonaCall("savePersona", Null, areas["local"], LastChange)
  /\ lastRead' = NoRead
  /\ UNCHANGED clearing
  /\ PersonaFrame

\* loadPersona, lines 124-127: persona || null
LoadPersona ==
  /\ clearing = "idle"
  /\ LET result == StoreGet(areas["local"], "persona")
         persona == IF "persona" \in DOMAIN result THEN Some(result["persona"]) ELSE Null
     IN lastPersona' = PersonaCall("loadPersona", persona, areas["local"], LastChange)
  /\ lastRead' = NoRead
  /\ UNCHANGED <<areas, opsLog, clearing>>
  /\ PersonaFrame

\* saveRawWritings, lines 129-131
SaveRawWritings(writings) ==
  /\ clearing = "idle" /\ Len(opsLog) < MaxCalls
  /\ areas' = [areas EXCEPT !["local"] = StoreSet(@, [k \in {"rawWritings"} |-> writings])]
  /\ opsLog' = Append(opsLog, Logged("set", "local", "rawWritings", Some(writings)))
  /\ lastPersona' = PersonaCall("saveRawWritings", Null, areas["local"], LastChange)
  /\ lastRead' = NoRead
  /\ UNCHANGED clearing
  /\ PersonaFrame

\* loadRawWritings, lines 133-136: writings || [] (a stored list, empty or
\* not, is an object and is returned as it is)
LoadRawWritings ==
  /\ clearing = "idle"
  /\ LET result == StoreGet(areas["local"], "rawWritings")
         writings == IF "rawWritings" \in DOMAIN result THEN result["rawWritings"] ELSE <<>>
     IN lastPersona' = PersonaCall("loadRawWritings", Some(writings), areas["local"], LastChange)
  /\ lastRead' = NoRead
  /\ UNCHANGED <<areas, opsLog, clearing>>
  /\ PersonaFrame

\* clearPersona, lines 138-139: storage.remove('persona')
ClearPersonaCall ==
  /\ clearing = "idle" /\ Len(opsLog) + 1 < MaxCalls
  /\ areas' = [areas EXCEPT !["local"] = StoreRemove(@, "persona")]
  /\ opsLog' = Append(opsLog, Logged("remove", "local", "persona", Null))
  /\ clearing' = "removedPersona"
  /\ lastPersona' = PersonaCall("clearing", Null, areas["local"], LastChange)
  /\ lastRead' = NoRead
  /\ PersonaFrame

\* a clearPersona that returns after its first remove
ClearPersonaKeepWritings ==
  /\ clearing = "removedPersona"
  /\ clearing' = "idle"
  /\ lastPersona' = [lastPersona EXCEPT !.kind = "clearPersona"]
  /\ lastRead' = NoRead
  /\ UNCHANGED <<areas, opsLog>>
  /\ PersonaFrame

\* clearPersona, lines 140-141: storage.remove('rawWritings'), and return
ClearPersonaRemoved ==
  /\ clearing = "removedPersona"
  /\ areas' = [areas EXCEPT !["local"] = StoreRemove(@, "rawWritings")]
  /\ opsLog' = Append(opsLog, Logged("remove", "local", "rawWritings", Null))
  /\ clearing' = "idle"
  /\ lastPersona' = [lastPersona EXCEPT !.kind = "clearPersona"]
  /\ lastRead' = NoRead
  /\ PersonaFrame

InitPersona == InitWith({}, FALSE)
NextPersona ==
  \/ \E persona \in Personas : SavePersona(persona)
  \/ LoadPersona
  \/ \E writings \in Writings : SaveRawWritings(writings)
  \/ LoadRawWritings
  \/ ClearPersonaCall
  \/ ClearPersonaRemoved
SpecPersona == InitPersona /\ [][NextPersona]_vars

\* ------------------------------------------------------------ getClient
\* utils/gemini.ts lines 7-17.  A GoogleGenerativeAI object is known by the
\* order of its construction: client n is the n-th object made.
ApiKeys == {"", "key-aaa", "key-bbb"}
ClientFrame ==
  UNCHANGED <<panelVars, tweetResultsCache, now, saveVars, backgroundVars, sessionVars,
              contentVars, storageVars, personaVars>>

\* a getClient that makes a client at every call
getClientFresh(apiKey) ==
  /\ lastClient.calls < MaxClients
  /\ created' = created + 1
  /\ cachedClient' = Some([apiKey |-> apiKey, client |-> created + 1])
  /\ lastClient' = [apiKey |-> apiKey, client |-> created + 1, cached |-> cachedClient,
                    made |-> TRUE, calls |-> lastClient.calls + 1]
  /\ ClientFrame

\* getClient, lines 10-17
getClient(apiKey) ==
  /\ lastClient.calls < MaxClients
  /\ IF cachedClient # Null /\ Get(cachedClient).apiKey = apiKey
     THEN /\ lastClient' = [apiKey |-> apiKey, client |-> Get(cachedClient).client,
                            cached |-> cachedClient, made |-> FALSE,
                            calls |-> lastClient.calls + 1]
          /\ UNCHANGED <<cachedClient, created>>
     ELSE /\ created' = created + 1
          /\ cachedClient' = Some([apiKey |-> apiKey, client |-> created + 1])
          /\ lastClient' = [apiKey |-> apiKey, client |-> created + 1,
                            cached |-> cachedClient, made |-> TRUE,
                            calls |-> lastClient.calls + 1]
  /\ ClientFrame

InitClient == InitWith({}, FALSE)
NextClient == \E apiKey \in ApiKeys : getClient(apiKey)
SpecClient == InitClient /\ [][NextClient]_vars

\* ------------------------------------------------------------- properties
\* the fingerprint of a displayed (nullable) post
KeyOf(t) == getTweetKey(Get(t))
\* the five fields restoreTweetResults sets
Shows(u, results) ==
  /\ u.generatedComment = results.generatedComment
  /\ u.tokenUsage = results.tokenUsage
  /\ u.tokenCost = results.tokenCost
  /\ u.currentModel = results.currentModel
  /\ u.commentExplanation = results.commentExplanation
\* no generation result is on display
ShowsNothing(u) ==
  /\ u.generatedComment = ""
  /\ u.tokenUsage = "null"
  /\ u.tokenCost = "null"
  /\ u.commentExplanation = "null"

\* C1 (save-before-switch): when a TWEET_CLICKED notification has been
\* processed, and the post on display when it arrived was shown with a
\* finished comment generated for it, the cache holds an entry under that
\* post's fingerprint whose generatedComment is the text that was shown.
\* The notification arrived with no handler in flight, was processed with
\* no other event, and no storage call rejected.
C1_SaveBeforeSwitch ==
  (/\ last.kind = "switch" /\ last.quiet /\ last.clean
   /\ last.prevTweet # Null
   /\ last.prevComment \in CommentsFor(Get(last.prevTweet)))
  => LET e == Lookup(ReadCache, KeyOf(last.prevTweet))
     IN e # Null /\ Get(e).generatedComment = last.prevComment

\* C2 (no stale carry-over): when a TWEET_CLICKED notification has been
\* processed for a post whose fingerprint had no cache entry when the panel
\* looked it up, the displayed comment, usage, cost and explanation are
\* empty.
C2_NoStaleCarryOver ==
  (last.kind = "switch" /\ last.lookup = Null) => ShowsNothing(ui)
\* a switch from a post shown with a comment to a post with another
\* fingerprint and no cache entry has been processed
C2_Witness ==
  /\ last.kind = "switch" /\ last.lookup = Null /\ last.entry = Null
  /\ last.prevTweet # Null /\ last.prevComment # ""
  /\ KeyOf(last.prevTweet) # KeyOf(last.tweet)
  /\ ShowsNothing(ui)

\* C3 (no wrong-post result): whenever no handler of the panel is in
\* flight, the displayed comment is empty or was generated for a post with
\* the fingerprint of the displayed post.
C3_NoWrongPostResult ==
  (panel = "open" /\ Settled)
  => \/ ui.generatedComment = ""
     \/ /\ ui.tweetData # Null
        /\ \E p \in SourcesOf(ui.generatedComment) : getTweetKey(p) = KeyOf(ui.tweetData)

C6_StaleResultDiscarded ==
  (/\ last.kind \in {"genResult", "genChunk"} /\ last.quiet
   /\ last.prevTweet # Null
   /\ KeyOf(last.prevTweet) # KeyOf(last.tweet))
  => ui.generatedComment = last.prevComment

\* C7 (late-joiner query): the answer to a GET_CURRENT_TWEET that was
\* received while tab c was active and after setCachedTweet(c, p) had
\* resolved, with no TWEET_CLICKED for c and no removal of c since that
\* call was made, is p.
C7_LateJoinerQuery ==
  (lastBg.kind = "answer" /\ lastBg.expected # Null) => lastBg.data = lastBg.expected

\* C8 (ordering of the TWEET_CLICKED handler): when the background calls
\* chrome.sidePanel.open for tab c on TWEET_CLICKED(c, post), the stored
\* tweetCache holds post for c.
C8_OpenAfterWrite ==
  lastBg.kind = "open" => lastBg.data = lastBg.post

\* C9 (restore on switch): when a TWEET_CLICKED notification has been
\* processed for a post whose fingerprint had a cache entry when the
\* notification arrived, the displayed comment, usage, cost, model and
\* explanation are that entry's.  The notification arrived with no handler
\* in flight, was processed with no other event, and no storage call
\* rejected.
C9_RestoreOnSwitch ==
  (last.kind = "switch" /\ last.quiet /\ last.clean /\ last.entry # Null)
  => Shows(ui, Get(last.entry))

\* C10 (mount with a new post): when the mount effect has finished, the
\* background returned a post whose fingerprint differs from that of the
\* post of the snapshot loadSettings read, the cache had no entry for the
\* returned post, and the user did nothing meanwhile, no generation result
\* is on display.
C10_MountNewPost ==
  (/\ last.kind = "mount" /\ last.quiet /\ last.clean
   /\ last.tweet # Null /\ last.prevTweet # Null
   /\ KeyOf(last.tweet) # KeyOf(last.prevTweet)
   /\ last.entry = Null)
  => ShowsNothing(ui)

\* C11 (mount ordering): when the mount effect has finished, the background
\* returned a post and the user did nothing meanwhile (no storage call
\* rejected), the displayed post is the post the background returned.
C11_MountShowsReturnedPost ==
  (last.kind = "mount" /\ last.quiet /\ last.clean /\ last.tweet # Null)
  => ui.tweetData = last.tweet

\* C12 (session state survives close and reopen): when the panel was closed
\* while it showed post p with a finished comment and its explanation,
\* nothing being in flight, and the mount effect of the reopened panel has
\* finished with the background returning p (the user did nothing
\* meanwhile, no storage call rejected), the panel displays p and the
\* comment that was displayed before the close.
C12_SurvivesReopen ==
  (/\ last.kind = "mount" /\ last.quiet /\ last.clean
   /\ query.closedWith # Null
   /\ last.tweet = Some(Get(query.closedWith).tweet))
  => /\ ui.tweetData = last.tweet
     /\ ui.generatedComment = Get(query.closedWith).comment

\* C13 (generation completion is persisted): when handleGenerateComment has
\* finished its saves for post p and result t (no storage call rejected),
\* sidePanelState holds p, t and t's usage, cost and model, and the cache
\* entry under p's fingerprint has generatedComment t.
C13_GenerationPersisted ==
  (last.kind = "gen" /\ last.clean)
  => /\ sidePanelState # Null
     /\ Get(sidePanelState).tweetData = last.tweet
     /\ Get(sidePanelState).generatedComment = last.prevComment
     /\ Get(sidePanelState).tokenUsage = UsageOf(last.prevComment)
     /\ Get(sidePanelState).tokenCost = CostOf(last.prevComment)
     /\ Get(sidePanelState).currentModel = SelectedModel
     /\ LET e == Lookup(ReadCache, KeyOf(last.tweet))
        IN e # Null /\ Get(e).generatedComment = last.prevComment

\* C14 (explanation completion keeps the generated text): when
\* handleExplanation has finished for post p and comment t with the
\* explanation delivered (no storage call rejected), sidePanelState and the
\* cache entry under p's fingerprint both hold that explanation together
\* with t and t's usage, cost and model.
C14_ExplanationKeepsText ==
  (last.kind = "expl" /\ last.clean)
  => LET t == last.prevComment
         e == Lookup(ReadCache, KeyOf(last.tweet))
     IN /\ sidePanelState # Null
        /\ Get(sidePanelState).commentExplanation = ExplanationOf(t)
        /\ Get(sidePanelState).generatedComment = t
        /\ Get(sidePanelState).tokenUsage = UsageOf(t)
        /\ Get(sidePanelState).tokenCost = CostOf(t)
        /\ Get(sidePanelState).currentModel = SelectedModel
        /\ e # Null
        /\ Shows(Get(e), Results(t, UsageOf(t), CostOf(t), SelectedModel, ExplanationOf(t), 0))


\* C15 (snapshot follows the switch): when a TWEET_CLICKED notification has
\* been processed, it arrived with no handler in flight, no other event
\* happened meanwhile and no storage call rejected, the stored sidePanelState
\* holds the newly clicked post and the generation fields on display.
C15_SnapshotFollowsSwitch ==
  (last.kind = "switch" /\ last.quiet /\ last.clean)
  => /\ sidePanelState # Null
     /\ Get(sidePanelState).tweetData = last.tweet
     /\ Shows(ui, Get(sidePanelState))


\* C16 (snapshot round trip): sessionStorage.get returns, for each key, the
\* value of the last sessionStorage.set of that key, whole: after set(S) the
\* get returns S, and after a later set(S2) it returns S2 with no field of S
\* left; a key never set is undefined.
C16_SnapshotRoundTrip ==
  lastSession.kind = "get"
  => LET saved == sessionSaved[lastSession.key]
     IN lastSession.value = IF saved = Null THEN Null ELSE Some(Get(saved).value)
\* a snapshot without a post was read back after it had been saved over a
\* different snapshot
C16_Witness ==
  /\ lastSession.kind = "get" /\ lastSession.key = "sidePanelState"
  /\ lastSession.value # Null
  /\ Get(lastSession.value).tweetData = Null
  /\ Get(lastSession.value).generatedComment = "aa1"
  /\ Get(sessionSaved["sidePanelState"]).replaced


\* C17 (idempotent clear): when removeCachedTweet(c) has returned twice in a
\* row, with no report for c in between and each call made after the
\* previous one returned, the second call has returned like the first,
\* tweetCache has no entry for c, and getCachedTweet(c) answers null; c may
\* never have been reported.
C17_IdempotentClear ==
  /\ \A c \in Tabs : (cleared[c] >= 2 /\ calls = <<>>) => ReadTweetCache[c] = Null
  /\ (lastBg.kind = "removed" /\ cleared[Get(lastBg.tab)] >= 2) => lastBg.data = Null
  /\ (lastBg.kind = "answer" /\ lastBg.tab # Null /\ cleared[Get(lastBg.tab)] >= 2)
     => lastBg.data = Null
\* getCachedTweet answered for a tab that was never reported and was cleared
\* twice, while another tab has an entry
C17_Witness ==
  /\ lastBg.kind = "answer" /\ lastBg.tab = Some(2)
  /\ cleared[2] >= 2
  /\ ReadTweetCache[1] # Null


\* C18 (destroyed contexts are purged): when tab c has been removed,
\* removeCachedTweet(c) has returned and no report for c has begun or been
\* written since, tweetCache has no entry for c, whatever reports for other
\* tabs were being handled meanwhile.
C18_DestroyedPurged ==
  \A c \in Tabs : (c \notin tabs /\ cleared[c] >= 1) => ReadTweetCache[c] = Null


\* C19 (empty results are never cached): no entry of the stored
\* tweetResultsCache has an empty generatedComment, and a saveTweetResults
\* call whose results have an empty generatedComment returns without reading
\* or writing: the cache and the calls in flight are as before it.
C19_EmptyNeverCached ==
  /\ [](\A i \in 1..Len(ReadCache) : ReadCache[i].val.generatedComment # "")
  /\ [][lastSkip' => (tweetResultsCache' = tweetResultsCache /\ saves' = saves)]_vars
\* a call with an empty comment has returned while the cache is full and a
\* call with a comment is in flight
C19_Witness ==
  /\ lastSkip
  /\ Len(ReadCache) = MaxCacheEntries
  /\ saves # <<>>


\* C20 (failed generations are not persisted): when handleGenerateComment
\* has ended in its catch because the request failed, the error is shown,
\* the displayed comment, usage and cost are cleared and isLoading is reset;
\* and the text of a chunk (onChunk) is never the generatedComment of the
\* stored sidePanelState or of an entry of the stored tweetResultsCache.
C20_FailedNotPersisted ==
  /\ (last.kind = "genFailed" /\ last.clean)
     => /\ ui.error /\ ~ui.isLoading
        /\ ui.generatedComment = "" /\ ui.tokenUsage = "null" /\ ui.tokenCost = "null"
  /\ sidePanelState # Null
     => \A p \in Posts : Get(sidePanelState).generatedComment # ChunkFor(p)
  /\ \A i \in 1..Len(ReadCache) :
       \A p \in Posts : ReadCache[i].val.generatedComment # ChunkFor(p)


\* C21 (storage failures degrade silently): a step of the panel in which a
\* chrome.storage.session call rejects changes neither sidePanelState nor
\* tweetResultsCache (a failed write is a no-op), and when the cache read of
\* a TWEET_CLICKED block rejects, the block still runs to its end: processed
\* with no other event, it leaves the new post on display with empty
\* comment, usage, cost and explanation (a failed read is an absent entry).
C21_SilentDegradation ==
  /\ []((last.kind = "switch" /\ last.failed /\ last.quiet)
        => (ui.tweetData = last.tweet /\ ShowsNothing(ui)))
  /\ [][failures' > failures
        => (sidePanelState' = sidePanelState /\ tweetResultsCache' = tweetResultsCache)]_vars
\* the cache read rejected in a switch away from a post shown with a comment,
\* to a post that has a cache entry
C21_Witness ==
  /\ last.kind = "switch" /\ last.failed /\ last.quiet
  /\ last.prevComment # "" /\ last.lookup # Null
  /\ ui.tweetData = last.tweet /\ ShowsNothing(ui)


\* C22 (every query is answered): a GET_CURRENT_TWEET handler that has ended
\* has called sendResponse, with the post stored for the tab it resolved or
\* with null; this holds without an active tab, for a tab with no entry, and
\* when the read of tweetCache rejects.
C22_EveryQueryAnswered ==
  /\ lastBg.kind # "unanswered"
  /\ (lastBg.kind = "answer" /\ lastBg.tab = Null) => lastBg.data = Null


\* C23 (eviction is least-recently-used): a step that removes from the
\* stored tweetResultsCache the entry of a fingerprint the panel has
\* restored or written in this run leaves no entry that the panel has
\* neither restored nor written in this run (such an entry was last written
\* before the run began, so it is the less recently used one).
C23_EvictionIsLRU ==
  [][LET before == {ReadCache[i].key : i \in 1..Len(ReadCache)}
         stored == IF tweetResultsCache' = Null THEN <<>> ELSE Get(tweetResultsCache')
         after == {stored[i].key : i \in 1..Len(stored)}
     IN \A k \in before \cap touched : k \notin after => after \subseteq touched']_vars


\* C24 (update does not insert): the step in which handleExplanation ends,
\* having attached its explanation through saveTweetResults, leaves the set
\* of fingerprints of the stored tweetResultsCache as it was: it inserts no
\* entry for a fingerprint that is not cached and removes none.
C24_UpdateDoesNotInsert ==
  [][last'.kind = "expl"
     => LET stored == IF tweetResultsCache' = Null THEN <<>> ELSE Get(tweetResultsCache')
        IN {stored[i].key : i \in 1..Len(stored)}
           = {ReadCache[i].key : i \in 1..Len(ReadCache)}]_vars


\* C25 (ownership of the three keys): a step of the panel (mount, switch,
\* generate, explain, close) leaves tweetCache as it was, and a step of the
\* background (TWEET_CLICKED, GET_CURRENT_TWEET, tab removed) leaves
\* sidePanelState and tweetResultsCache as they were; so the post of the
\* snapshot stays when the tab's entry is replaced or removed.
C25_Ownership ==
  [][/\ (<<panel, ui, switches, gen, expls, loadSettings, query>>'
           # <<panel, ui, switches, gen, expls, loadSettings, query>>)
        => tweetCache' = tweetCache
     /\ (<<calls, tabs, activeTab>>' # <<calls, tabs, activeTab>>)
        => (sidePanelState' = sidePanelState /\ tweetResultsCache' = tweetResultsCache)]_vars
\* the entry of a tab that held the post of the stored snapshot has been
\* replaced by another post, and the snapshot still holds its post
C25_Witness ==
  /\ sidePanelState # Null /\ Get(sidePanelState).tweetData = Some(PostB)
  /\ \E i \in 1..Len(calls) :
       /\ calls[i].kind = "set" /\ calls[i].pc = "written"
       /\ calls[i].cache[Get(calls[i].tab)] = Some(PostB)
       /\ calls[i].data = Some(PostA)
       /\ ReadTweetCache[Get(calls[i].tab)] = Some(PostA)


\* C26 (empty posts are never emitted): every TWEET_CLICKED message of a
\* content script carries a post whose text is not empty; a run of the
\* content script whose extraction failed or gave an empty text sends
\* nothing, and what it sends is what it extracted; so no post with an empty
\* text is in tweetCache, in a setCachedTweet call or before the panel.
C26_NoEmptyPost ==
  /\ \A i \in 1..Len(outbox) : outbox[i].data.text # <<>>
  /\ (lastContent.extracted = Null \/ Get(lastContent.extracted).text = <<>>)
       => lastContent.sent = <<>>
  /\ \A i \in 1..Len(lastContent.sent) :
       lastContent.extracted = Some(lastContent.sent[i])
  /\ \A c \in Tabs : ReadTweetCache[c] # Null => Get(ReadTweetCache[c]).text # <<>>
  /\ \A i \in 1..Len(calls) : calls[i].data # Null => Get(calls[i].data).text # <<>>
  /\ \A i \in 1..Len(switches) : switches[i].tweet.text # <<>>
  /\ ui.tweetData # Null => Get(ui.tweetData).text # <<>>
\* a click on a tweet whose text is white space sends nothing, after an
\* earlier post of the same tab was stored by the background
C26_Witness ==
  /\ lastContent.kind = "click"
  /\ lastContent.extracted = Some([text |-> <<>>])
  /\ lastContent.sent = <<>>
  /\ \E c \in Tabs : ReadTweetCache[c] = Some(PostB)


\* the value of key in area after the calls of log: that of the latest set
\* of the key when no remove of the key and no clear of the area came after
\* it, none (Null) otherwise
RECURSIVE Live(_, _, _)
Live(log, area, key) ==
  IF log = <<>> THEN Null
  ELSE LET op == log[Len(log)] IN
       IF op.area = area /\ op.kind = "clear" THEN Null
       ELSE IF op.area = area /\ op.key = key
            THEN (IF op.kind = "set" THEN op.value ELSE Null)
            ELSE Live(SubSeq(log, 1, Len(log) - 1), area, key)

\* C27 (the storage wrappers behave like a map): in both areas, get(k)
\* returns the value of the latest set(k) that no remove(k) and no clear
\* followed, and undefined otherwise; getAll returns exactly the keys that
\* have such a value, with that value; set(k) and remove(k) leave every
\* other key of both areas as it was.
C27_WrappersAreMaps ==
  /\ [](lastRead.kind = "get"
          => lastRead.result = Live(opsLog, lastRead.area, lastRead.key))
  /\ [](lastRead.kind = "getAll"
          => /\ DOMAIN lastRead.result
                  = {k \in AreaKeys(lastRead.area) : Live(opsLog, lastRead.area, k) # Null}
             /\ \A k \in DOMAIN lastRead.result :
                  Some(lastRead.result[k]) = Live(opsLog, lastRead.area, k))
  /\ [][(opsLog' # opsLog /\ opsLog'[Len(opsLog')].kind \in {"set", "remove"})
        => \A a \in AreaNames : \A k \in AreaKeys(a) :
             (a # opsLog'[Len(opsLog')].area \/ k # opsLog'[Len(opsLog')].key)
               => areas'[a][k] = areas[a][k]]_vars
\* getAll of the local area returns the raw writings alone after the persona
\* was set and removed and the session area was written and cleared
C27_Witness ==
  /\ lastRead.kind = "getAll" /\ lastRead.area = "local"
  /\ DOMAIN lastRead.result = {"rawWritings"}
  /\ \E i, j \in 1..Len(opsLog) :
       /\ i < j
       /\ opsLog[i].kind = "set" /\ opsLog[i].area = "local" /\ opsLog[i].key = "persona"
       /\ opsLog[j].kind = "remove" /\ opsLog[j].area = "local" /\ opsLog[j].key = "persona"
  /\ \E i \in 1..Len(opsLog) : opsLog[i].kind = "clear" /\ opsLog[i].area = "session"


\* C28 (persona reset removes everything): when clearPersona has returned,
\* neither the persona nor the raw writings are stored; a loadPersona that
\* follows it returns null and a loadRawWritings that follows it returns
\* the empty list; called on an empty area it returns and leaves the area
\* empty; called after a clearPersona it leaves the area as it found it.
C28_ClearPersona ==
  /\ lastPersona.kind = "clearPersona"
       => (areas["local"]["persona"] = Null /\ areas["local"]["rawWritings"] = Null)
  /\ (lastPersona.kind = "loadPersona" /\ lastPersona.prev = "clearPersona")
       => lastPersona.result = Null
  /\ (lastPersona.kind = "loadRawWritings" /\ lastPersona.prev = "clearPersona")
       => lastPersona.result = Some(<<>>)
  /\ (lastPersona.kind = "clearPersona" /\ lastPersona.before = EmptyAreas["local"])
       => areas["local"] = EmptyAreas["local"]
  /\ (lastPersona.kind = "clearPersona" /\ lastPersona.prev = "clearPersona")
       => areas["local"] = lastPersona.before
\* the raw writings are loaded as the empty list after a clearPersona that
\* found a persona and non-empty writings stored
C28_Witness ==
  /\ lastPersona.kind = "loadRawWritings" /\ lastPersona.prev = "clearPersona"
  /\ lastPersona.result = Some(<<>>)
  /\ \E i, j, k \in 1..Len(opsLog) :
       /\ i < k /\ j < k
       /\ opsLog[i] = Logged("set", "local", "persona", Some("persona1"))
       /\ opsLog[j] = Logged("set", "local", "rawWritings", Some(<<"w">>))
       /\ opsLog[k] = Logged("remove", "local", "persona", Null)


\* C29 (client singleton): a getClient call with the key of the cached
\* client returns that client and makes none; a call with another key, or
\* with no client cached, returns a client made by this call, which no
\* earlier call returned; after every call the cache holds the key of the
\* call and the client it returned.
C29_ClientSingleton ==
  lastClient.calls > 0 =>
    /\ cachedClient = Some([apiKey |-> lastClient.apiKey, client |-> lastClient.client])
    /\ (lastClient.cached # Null /\ Get(lastClient.cached).apiKey = lastClient.apiKey)
         => (lastClient.client = Get(lastClient.cached).client /\ ~lastClient.made)
    /\ (lastClient.cached = Null \/ Get(lastClient.cached).apiKey # lastClient.apiKey)
         => (lastClient.made /\ lastClient.client = created
             /\ (lastClient.cached # Null => lastClient.client > Get(lastClient.cached).client))
\* a call with the cached key returns the second client made, after the key
\* had changed once
C29_Witness ==
  /\ lastClient.calls = 3 /\ ~lastClient.made
  /\ lastClient.apiKey = "key-bbb" /\ lastClient.client = 2
  /\ cachedClient = Some([apiKey |-> "key-bbb", client |-> 2])


\* C30 (replace without eviction): when saveTweetResults puts a fingerprint
\* that is in the cache it read, what it writes has the same fingerprints at
\* the same positions, whether or not that cache holds MaxCacheEntries (10)
\* entries: the entry of the fingerprint holds the new results and every
\* other entry is as it was read.
C30_ReplaceInPlace ==
  lastSave # Null =>
    LET s == Get(lastSave)
    IN HasKey(s.existing, s.key) =>
         /\ Len(s.written) = Len(s.existing)
         /\ \A j \in 1..Len(s.existing) :
              /\ s.written[j].key = s.existing[j].key
              /\ s.existing[j].key # s.key => s.written[j] = s.existing[j]
              /\ s.existing[j].key = s.key => s.written[j].val = s.results
\* a call has replaced the entry of a fingerprint in a cache it read full,
\* with results that differ from those it found
C30_Witness ==
  /\ lastSave # Null
  /\ LET s == Get(lastSave)
     IN /\ Len(s.existing) = MaxCacheEntries
        /\ HasKey(s.existing, s.key)
        /\ Lookup(s.existing, s.key) # Some(s.results)
        /\ Lookup(s.written, s.key) = Some(s.results)
        /\ Len(s.written) = MaxCacheEntries


\* C31 (query resolution): a GET_CURRENT_TWEET handler resolves the tab that
\* chrome.tabs.query reports active when the message is handled (the sender
\* plays no part), reads tweetCache for it, and answers with the entry that
\* tab has in the cache it read; without an active tab it answers null.
C31_QueryResolution ==
  /\ []((lastBg.kind = "answer" /\ lastBg.tab = Null) => lastBg.data = Null)
  /\ [][/\ (Len(calls') = Len(calls) + 1 /\ calls'[Len(calls')].kind = "get")
             => calls'[Len(calls')].tab = activeTab
        /\ \A i \in 1..Len(calls) :
             /\ (calls[i].kind = "get" /\ calls[i].pc = "tabs" /\ Len(calls') = Len(calls)
                 /\ calls'[i].pc = "gotCache")
                  => (calls'[i].tab = calls[i].tab /\ calls'[i].cache = ReadTweetCache)
             /\ (calls[i].kind = "get" /\ calls[i].pc = "gotCache"
                 /\ calls' = RemoveAt(calls, i) /\ lastBg'.kind = "answer")
                  => /\ lastBg'.tab = calls[i].tab
                     /\ lastBg'.data = calls[i].cache[Get(calls[i].tab)]]_vars
\* the query was answered with the post of tab 2, the active tab, while tab 1
\* holds another post
C31_Witness ==
  /\ lastBg.kind = "answer" /\ lastBg.tab = Some(2)
  /\ lastBg.data = Some(PostB)
  /\ activeTab = Some(2)
  /\ ReadTweetCache[1] = Some(PostA) /\ ReadTweetCache[2] = Some(PostB)


\* C32 (last report wins within a tab): when TWEET_CLICKED(c, p2) followed
\* the completed report of another post p1 for c, the write of
\* setCachedTweet(c, p2) has returned, no other call for c is in flight and
\* nothing was received for c since, tweetCache holds p2 for c; and an
\* answer to GET_CURRENT_TWEET is null or a whole post.
C32_LastReportWins ==
  /\ \A i \in 1..Len(calls) :
       (/\ calls[i].kind = "set" /\ calls[i].pc = "written" /\ calls[i].fresh
        /\ calls[i].expected # Null /\ calls[i].expected # calls[i].data
        /\ \A j \in (1..Len(calls)) \ {i} : calls[j].tab # calls[i].tab)
         => ReadTweetCache[Get(calls[i].tab)] = calls[i].data
  /\ lastBg.kind = "answer" => lastBg.data \in {Null} \cup {Some(p) : p \in posts}


\* ---------------------------------------------------------------- C33
\* the timers tab c has pending
TimersOf(c) == IF content[c] = Null THEN <<>> ELSE Get(content[c]).timers
\* the last step was an attempt of an auto-detection run
Attempted == lastContent.kind \in {"load", "timer"} /\ lastContent.tried >= 0
ValidText(tweetData) == tweetData # Null /\ Get(tweetData).text # <<>>

\* C33: an auto-detection run on a detail page makes its first attempt and at
\* most MaxAttempts = 5 retries: every attempt has a number in 0..5, every
\* pending retry a number in 1..5.  An attempt that extracts a non-empty text
\* sends exactly that post and sets no retry, which ends the run (so a run
\* sends at most one message, on its first such attempt); an attempt without
\* text sends nothing and sets the one retry numbered one higher, except that
\* attempt 5 sets none (the run gives up).  A run with a pending retry
\* reaches a state without one when timers fire, unless the tab is closed or
\* a sent message is still waiting for its listeners.
C33_BoundedAutoDetect ==
  /\ [](/\ \A c \in Tabs : \A k \in 1..Len(TimersOf(c)) :
             /\ TimersOf(c)[k].attempts \in 0..MaxAttempts
             /\ TimersOf(c)[k].kind = "tryExtract" => TimersOf(c)[k].attempts >= 1
        /\ lastContent.tried <= MaxAttempts
        /\ Len(lastContent.sent) <= 1
        /\ Attempted =>
             IF ValidText(lastContent.extracted)
             THEN lastContent.sent = <<Get(lastContent.extracted)>>
             ELSE lastContent.sent = <<>>
        /\ (lastContent.kind \in {"load", "timer"} /\ lastContent.tried < 0)
             => lastContent.sent = <<>>)
  /\ [][\A c \in Tabs :
          (/\ content'[c] # content[c]
           /\ lastContent'.kind \in {"load", "timer"} /\ lastContent'.tab = Some(c))
            => LET kept == IF content[c] = Null THEN <<>> ELSE Tail(TimersOf(c))
                   retry == lastContent'.tried >= 0 /\ lastContent'.sent = <<>>
                            /\ lastContent'.tried < MaxAttempts
               IN TimersOf(c)' =
                    IF retry
                    THEN Append(kept, Timer("tryExtract", lastContent'.tried + 1))
                    ELSE kept]_vars
  /\ \A c \in Tabs :
       (TimersOf(c) # <<>>) ~> (TimersOf(c) = <<>> \/ c \notin tabs \/ outbox # <<>>)

\* the sixth attempt of a run (the fifth retry) found no text and the run
\* gave up: nothing sent, no timer left
C33_Witness ==
  /\ lastContent.kind = "timer" /\ lastContent.tried = MaxAttempts
  /\ ~ValidText(lastContent.extracted)
  /\ lastContent.sent = <<>>
  /\ TimersOf(Get(lastContent.tab)) = <<>>


\* ---------------------------------------------------------------- C34
\* C34: when the reports of two different tabs are in flight together, no
\* other call is, and the cache writes of both have landed, the stored
\* cache holds the post of each report under its tab.
C34_NoClobber ==
  \A i, j \in 1..Len(calls) :
    (/\ Len(calls) = 2 /\ i # j
     /\ calls[i].kind = "set" /\ calls[j].kind = "set"
     /\ calls[i].pc = "written" /\ calls[j].pc = "written"
     /\ calls[i].fresh /\ calls[j].fresh
     /\ calls[i].tab # calls[j].tab)
      => /\ ReadTweetCache[Get(calls[i].tab)] = calls[i].data
         /\ ReadTweetCache[Get(calls[j].tab)] = calls[j].data


\* ---------------------------------------------------------------- C35
\* C35: every entry of the stored tweetResultsCache holds, under its
\* fingerprint f, a generatedComment that the generation service returned
\* (or streamed) for a post whose fingerprint is f.
C35_EntriesBelongToKey ==
  \A i \in 1..Len(ReadCache) :
    \E p \in SourcesOf(ReadCache[i].val.generatedComment) :
      getTweetKey(p) = ReadCache[i].key


\* ---------------------------------------------------------------- C36
\* C36: when the blocks of two TWEET_CLICKED notifications, A then B with
\* different fingerprints, have both ended, B having arrived while A's block
\* was in flight, with no other event and no rejected storage call, the
\* panel displays post B, and the displayed results are B's cache entry or
\* nothing.
C36_OverlapSettlesOnLast ==
  (/\ last.kind = "switch" /\ last.pair # Null /\ last.clean
   /\ getTweetKey(Get(last.pair).first) # getTweetKey(Get(last.pair).second))
  => LET B == Get(last.pair).second IN
       /\ ui.tweetData = Some(B)
       /\ \/ ShowsNothing(ui)
          \/ CachedFor(B) # Null /\ Shows(ui, Get(CachedFor(B)))


\* ---------------------------------------------------------------- C37
\* C37: handleGenerateComment is in flight exactly while isLoading is set;
\* a step that starts a request finds none in flight and the flag reset, and
\* sets the flag; and once the request of a handler has returned with a
\* result, the flag is reset when the handler's storage calls return (a
\* request that fails resets it in the same step).
C37_SingleGeneration ==
  /\ [](panel = "open" => (gen # Null <=> ui.isLoading))
  /\ [][(gen' # Null /\ gen' # gen /\ Get(gen').pc = "streaming")
          => (gen = Null /\ ~ui.isLoading /\ ui'.isLoading)]_vars
  /\ [][(gen # Null /\ Get(gen).pc = "streaming" /\ last'.kind = "genFailed")
          => (gen' = Null /\ ~ui'.isLoading)]_vars
  /\ (gen # Null /\ Get(gen).pc # "streaming") ~> ~ui.isLoading

\* a handler whose request returned a result has ended: the result is on
\* display, the flag is reset and the explanation has been requested
C37_Witness ==
  /\ last.kind = "gen" /\ gen = Null
  /\ ~ui.isLoading
  /\ ui.generatedComment \in CommentsFor(PostB)
  /\ expls # <<>>


\* ---------------------------------------------------------------- C38
\* C38: the step in which the block of a TWEET_CLICKED notification ends
\* leaves the displayed comment and the displayed explanation as they were,
\* when the notification was for the post on display, arrived with no
\* handler in flight while a comment and its explanation were displayed, was
\* processed with no other event, and no storage call rejected.
C38_ReobserveHarmless ==
  [][(/\ last'.kind = "switch" /\ Len(switches') < Len(switches)
      /\ last'.quiet /\ last'.clean
      /\ last'.prevTweet = last'.tweet
      /\ ui.generatedComment # "" /\ ui.commentExplanation # "null")
       => /\ ui'.generatedComment = ui.generatedComment
          /\ ui'.commentExplanation = ui.commentExplanation]_vars
====
